---- MODULE Spec2Model ----
(***************************************************************************)
(* A model of the go-codec-dageth transcoders: the hex-prefix path         *)
(* compaction (shared/utils.go), the Merkle-Patricia trie node codec       *)
(* (trie/marshal.go, decode; the trie encoder) and the entity transcoders  *)
(* the trie codec delegates to.  Byte strings are sequences of 0..255,     *)
(* RLP is modelled by its actual byte encoding, graph (IPLD) nodes are     *)
(* records tagged with their kind.                                         *)
(***************************************************************************)
EXTENDS Integers, Sequences, FiniteSets, TLC

VARIABLES op, orig, arg, res

vars == <<op, orig, arg, res>>

(***************************************************************************)
(* Bounds of the model.                                                    *)
(***************************************************************************)
\* longest nibble sequence (terminator excluded) handed to HexToCompact
MaxNibbles == 3
\* the small quantities (nonce, gas, amounts, fees) of the sample entities are 0..MaxQuantity
MaxQuantity == 1
\* lists of 0..MaxListLen members are handed to the trie node decoder
MaxListLen == 18

(***************************************************************************)
(* Bytes and integers.                                                     *)
(***************************************************************************)
NoErr == "nil"

RECURSIVE BitOr(_, _)
\* a | b on unsigned integers
BitOr(a, b) ==
  IF a = 0 THEN b
  ELSE IF b = 0 THEN a
  ELSE (IF (a % 2 = 1) \/ (b % 2 = 1) THEN 1 ELSE 0) + 2 * BitOr(a \div 2, b \div 2)

RECURSIVE BitAnd(_, _)
\* a & b on unsigned integers
BitAnd(a, b) ==
  IF a = 0 \/ b = 0 THEN 0
  ELSE (IF (a % 2 = 1) /\ (b % 2 = 1) THEN 1 ELSE 0) + 2 * BitAnd(a \div 2, b \div 2)

\* x << n on a byte
Shl8(x, n) == (x * (2 ^ n)) % 256

RECURSIVE BigBytes(_)
\* big.Int.Bytes(): the minimal big-endian bytes of n, empty for zero
BigBytes(n) == IF n = 0 THEN <<>> ELSE BigBytes(n \div 256) \o <<n % 256>>

RECURSIVE SetBytes(_)
\* big.Int.SetBytes(): the unsigned big-endian value of b
SetBytes(b) ==
  IF Len(b) = 0 THEN 0 ELSE SetBytes(SubSeq(b, 1, Len(b) - 1)) * 256 + b[Len(b)]

RECURSIVE ShiftRight8(_, _)
\* v >> (8 * k)
ShiftRight8(v, k) == IF k = 0 THEN v ELSE ShiftRight8(v \div 256, k - 1)

\* binary.BigEndian.PutUint64 into a fresh make([]byte, 8)
PutUint64(v) == [i \in 1..8 |-> ShiftRight8(v, 8 - i) % 256]

\* binary.BigEndian.Uint64 of the first 8 bytes (the caller checks Len(b) >= 8)
Uint64(b) == SetBytes(SubSeq(b, 1, 8))

\* a byte string of n copies of x
Fill(n, x) == [i \in 1..n |-> x]

(***************************************************************************)
(* RLP (go-ethereum/rlp) by its byte encoding.  An item is a string        *)
(* [t |-> "s", b |-> bytes] or a list [t |-> "l", e |-> items].            *)
(***************************************************************************)
RStr(b) == [t |-> "s", b |-> b]
RList(e) == [t |-> "l", e |-> e]

\* the size header: base+len for short payloads, base+55+lenOfLen and the length otherwise
RlpHead(len, base) ==
  IF len < 56 THEN <<base + len>>
  ELSE <<base + 55 + Len(BigBytes(len))>> \o BigBytes(len)

RECURSIVE RlpEncode(_)
RECURSIVE RlpEncodeAll(_)
\* rlp.EncodeToBytes of a []byte or a []interface{}
RlpEncode(x) ==
  IF x.t = "s"
  THEN IF Len(x.b) = 1 /\ x.b[1] < 128 THEN x.b
       ELSE RlpHead(Len(x.b), 128) \o x.b
  ELSE LET payload == RlpEncodeAll(x.e) IN RlpHead(Len(payload), 192) \o payload
RlpEncodeAll(xs) ==
  IF Len(xs) = 0 THEN <<>> ELSE RlpEncode(Head(xs)) \o RlpEncodeAll(Tail(xs))

RlpFail == [ok |-> FALSE, item |-> RStr(<<>>), next |-> 0]

RECURSIVE RlpParse(_, _, _)
RECURSIVE RlpParseList(_, _, _)
\* one value of s starting at pos and ending no later than lim; next is the position after it
RlpParse(s, pos, lim) ==
  IF pos > lim THEN RlpFail
  ELSE LET b0 == s[pos] IN
    IF b0 < 128 THEN [ok |-> TRUE, item |-> RStr(<<b0>>), next |-> pos + 1]
    ELSE IF b0 < 184 THEN
      LET n == b0 - 128 IN
        IF pos + n > lim THEN RlpFail
        ELSE IF n = 1 /\ s[pos + 1] < 128 THEN RlpFail
        ELSE [ok |-> TRUE, item |-> RStr(SubSeq(s, pos + 1, pos + n)), next |-> pos + n + 1]
    ELSE IF b0 < 192 THEN
      LET ll == b0 - 183 IN
        IF pos + ll > lim THEN RlpFail
        ELSE LET n == SetBytes(SubSeq(s, pos + 1, pos + ll)) IN
          IF s[pos + 1] = 0 \/ n < 56 \/ pos + ll + n > lim THEN RlpFail
          ELSE [ok |-> TRUE, item |-> RStr(SubSeq(s, pos + ll + 1, pos + ll + n)),
                next |-> pos + ll + n + 1]
    ELSE IF b0 < 248 THEN
      LET n == b0 - 192 IN
        IF pos + n > lim THEN RlpFail
        ELSE LET r == RlpParseList(s, pos + 1, pos + n) IN
          IF r.ok THEN [ok |-> TRUE, item |-> RList(r.items), next |-> pos + n + 1]
          ELSE RlpFail
    ELSE
      LET ll == b0 - 247 IN
        IF pos + ll > lim THEN RlpFail
        ELSE LET n == SetBytes(SubSeq(s, pos + 1, pos + ll)) IN
          IF s[pos + 1] = 0 \/ n < 56 \/ pos + ll + n > lim THEN RlpFail
          ELSE LET r == RlpParseList(s, pos + ll + 1, pos + ll + n) IN
            IF r.ok THEN [ok |-> TRUE, item |-> RList(r.items), next |-> pos + ll + n + 1]
            ELSE RlpFail
\* the values filling s[pos..lim] exactly
RlpParseList(s, pos, lim) ==
  IF pos > lim THEN [ok |-> TRUE, items |-> <<>>]
  ELSE LET h == RlpParse(s, pos, lim) IN
    IF ~h.ok THEN [ok |-> FALSE, items |-> <<>>]
    ELSE LET r == RlpParseList(s, h.next, lim) IN
      [ok |-> r.ok, items |-> IF r.ok THEN <<h.item>> \o r.items ELSE <<>>]

\* rlp.DecodeBytes: exactly one canonical value in s
RlpDecodeBytes(s) ==
  LET whole(r) == IF r.ok /\ r.next = Len(s) + 1 THEN [ok |-> TRUE, item |-> r.item]
                  ELSE [ok |-> FALSE, item |-> RStr(<<>>)]
  IN whole(RlpParse(s, 1, Len(s)))

(***************************************************************************)
(* Path compaction, shared/utils.go.                                       *)
(***************************************************************************)
\* hasTerm returns whether a hex key has the terminator flag
hasTerm(s) == Len(s) > 0 /\ s[Len(s)] = 16

\* decodeNibbles that packs the low nibble first
decodeNibbles_lowFirst(nibbles) ==
  [bi \in 1..(Len(nibbles) \div 2) |->
     BitOr(Shl8(nibbles[2 * bi], 4), nibbles[2 * bi - 1])]

\* decodeNibbles packs nibbles two per byte, high nibble first
decodeNibbles(nibbles) ==
  [bi \in 1..(Len(nibbles) \div 2) |->
     BitOr(Shl8(nibbles[2 * bi - 1], 4), nibbles[2 * bi])]

\* hexToCompact that sets the odd flag but leaves the first nibble out of the flag byte
hexToCompact_noFirstNibble(hex) ==
  LET terminator == IF hasTerm(hex) THEN 1 ELSE 0
      hex1 == IF hasTerm(hex) THEN SubSeq(hex, 1, Len(hex) - 1) ELSE hex
      odd == BitAnd(Len(hex1), 1) = 1
      flag == IF odd THEN BitOr(Shl8(terminator, 5), Shl8(1, 4)) ELSE Shl8(terminator, 5)
      hex2 == IF odd THEN Tail(hex1) ELSE hex1
  IN <<flag>> \o decodeNibbles(hex2)

hexToCompact(hex) ==
  LET terminator == IF hasTerm(hex) THEN 1 ELSE 0
      hex1 == IF hasTerm(hex) THEN SubSeq(hex, 1, Len(hex) - 1) ELSE hex
      odd == BitAnd(Len(hex1), 1) = 1
      flag == IF odd THEN BitOr(BitOr(Shl8(terminator, 5), Shl8(1, 4)), hex1[1])
              ELSE Shl8(terminator, 5)
      hex2 == IF odd THEN Tail(hex1) ELSE hex1
  IN <<flag>> \o decodeNibbles(hex2)

HexToCompact(hex) == hexToCompact(hex)

keybytesToHex(str) ==
  [i \in 1..(2 * Len(str) + 1) |->
     IF i = 2 * Len(str) + 1 THEN 16
     ELSE IF i % 2 = 1 THEN str[(i + 1) \div 2] \div 16
     ELSE str[i \div 2] % 16]

\* compactToHex that leaves the terminator in place whatever the flag says
compactToHex_keepTerm(compact) ==
  IF Len(compact) = 0 THEN compact
  ELSE LET base == keybytesToHex(compact)
           chop == 2 - BitAnd(base[1], 1)
       IN SubSeq(base, chop + 1, Len(base))

\* compactToHex that deletes the terminator whatever the flag says
compactToHex_dropTerm(compact) ==
  IF Len(compact) = 0 THEN compact
  ELSE LET base == keybytesToHex(compact)
           base1 == SubSeq(base, 1, Len(base) - 1)
           chop == 2 - BitAnd(base1[1], 1)
       IN SubSeq(base1, chop + 1, Len(base1))

compactToHex(compact) ==
  IF Len(compact) = 0 THEN compact
  ELSE LET base == keybytesToHex(compact)
           base1 == IF base[1] < 2 THEN SubSeq(base, 1, Len(base) - 1) ELSE base
           chop == 2 - BitAnd(base1[1], 1)
       IN SubSeq(base1, chop + 1, Len(base1))

CompactToHex(compact) == compactToHex(compact)

\* the nibble sequences of at most n nibbles, optionally closed by the terminator
NibbleSeqs == UNION {[1..n -> {0, 1, 9, 15}] : n \in 0..MaxNibbles}
HexKeys == NibbleSeqs \cup {n \o <<16>> : n \in NibbleSeqs}

(***************************************************************************)
(* Graph (IPLD) nodes by kind, and the results of calls.  A map node's m   *)
(* is a function from its keys; LookupByString fails on a missing key and  *)
(* on a node that is not a map.  The assembler is the schema-free one of   *)
(* go-ipld-prime (the README allows basic nodes); it accepts every         *)
(* assignment.                                                             *)
(***************************************************************************)
Null == [k |-> "null"]
Bytes(b) == [k |-> "bytes", v |-> b]
MapNode(m) == [k |-> "map", m |-> m]
ListNode(l) == [k |-> "list", l |-> l]

IsNull(n) == n.k = "null"
HasKey(n, key) == n.k = "map" /\ key \in DOMAIN n.m

\* a call's outcome: err is NoErr, an error message, or a panic
R(err, node) == [err |-> err, node |-> node]

\* multicodec tags (go-cid) and the multihash function tag
EthTxTrie == 146
EthTxReceiptTrie == 148
EthStateTrie == 150
EthStorageTrie == 152
logTrieMulticodec == 153
EthBlock == 144
Raw == 85
KECCAK_256 == 27
HashLength == 32
AddressLength == 20

\* multihash.Encode(h, KECCAK_256) wrapped by cid.NewCidV1(codec, ...): no length check
Keccak256ToCid(codec, h) ==
  [k |-> "link", codec |-> codec, mhType |-> KECCAK_256, digest |-> h]

\* multihash.Decode(link.Hash()).Digest
DecodedDigest(link) == link.digest

\* common.BytesToAddress / common.BytesToHash: crop from the left, pad on the left
BytesToFixed(n, b) ==
  IF Len(b) > n THEN SubSeq(b, Len(b) - n + 1, Len(b))
  ELSE Fill(n - Len(b), 0) \o b

(***************************************************************************)
(* RLP decoding of typed fields (go-ethereum/rlp).                         *)
(***************************************************************************)
\* an unsigned integer: a string without leading zero byte
IsRlpInt(x) == x.t = "s" /\ (Len(x.b) = 0 \/ x.b[1] # 0)
IsRlpUint64(x) == IsRlpInt(x) /\ Len(x.b) <= 8
IsRlpFixed(x, n) == x.t = "s" /\ Len(x.b) = n
\* *common.Address `rlp:"nil"`: empty is nil
IsRlpOptAddress(x) == x.t = "s" /\ Len(x.b) \in {0, AddressLength}
IsRlpHashList(x) == x.t = "l" /\ \A i \in 1..Len(x.e) : IsRlpFixed(x.e[i], HashLength)
IsRlpAccessList(x) ==
  /\ x.t = "l"
  /\ \A i \in 1..Len(x.e) :
       /\ x.e[i].t = "l"
       /\ Len(x.e[i].e) = 2
       /\ IsRlpFixed(x.e[i].e[1], AddressLength)
       /\ IsRlpHashList(x.e[i].e[2])

RUint(n) == RStr(BigBytes(n))
RHashes(hs) == RList([i \in 1..Len(hs) |-> RStr(hs[i])])
RAccessList(al) ==
  RList([i \in 1..Len(al) |-> RList(<<RStr(al[i].Address), RHashes(al[i].StorageKeys)>>)])
AccessListOf(x) ==
  [i \in 1..Len(x.e) |->
     [Address |-> x.e[i].e[1].b,
      StorageKeys |-> [j \in 1..Len(x.e[i].e[2].e) |-> x.e[i].e[2].e[j].b]]]

(***************************************************************************)
(* Transactions.  go-ethereum's types.Transaction is a record of its       *)
(* fields (To = <<>> is the nil recipient); MarshalBinary/UnmarshalBinary  *)
(* are the consensus (typed envelope) encoding.                            *)
(***************************************************************************)
LegacyTxType == 0
AccessListTxType == 1
DynamicFeeTxType == 2

\* the field list the consensus RLP of a transaction carries
TxItem(tx) ==
  IF tx.Type = LegacyTxType
  THEN RList(<<RUint(tx.Nonce), RUint(tx.GasPrice), RUint(tx.Gas), RStr(tx.To),
               RUint(tx.Value), RStr(tx.Data), RUint(tx.V), RUint(tx.R), RUint(tx.S)>>)
  ELSE IF tx.Type = AccessListTxType
  THEN RList(<<RUint(tx.ChainID), RUint(tx.Nonce), RUint(tx.GasPrice), RUint(tx.Gas),
               RStr(tx.To), RUint(tx.Value), RStr(tx.Data), RAccessList(tx.AccessList),
               RUint(tx.V), RUint(tx.R), RUint(tx.S)>>)
  ELSE RList(<<RUint(tx.ChainID), RUint(tx.Nonce), RUint(tx.GasTipCap), RUint(tx.GasFeeCap),
               RUint(tx.Gas), RStr(tx.To), RUint(tx.Value), RStr(tx.Data),
               RAccessList(tx.AccessList), RUint(tx.V), RUint(tx.R), RUint(tx.S)>>)

\* types.Transaction.MarshalBinary
MarshalBinary(tx) ==
  IF tx.Type = LegacyTxType THEN RlpEncode(TxItem(tx))
  ELSE <<tx.Type>> \o RlpEncode(TxItem(tx))

ZeroTx ==
  [Type |-> 0, ChainID |-> 0, Nonce |-> 0, GasPrice |-> 0, GasTipCap |-> 0, GasFeeCap |-> 0,
   Gas |-> 0, To |-> <<>>, Value |-> 0, Data |-> <<>>, AccessList |-> <<>>,
   V |-> 0, R |-> 0, S |-> 0]

\* whether rlp decodes x into the field list of a transaction of type ty
IsTxItem(ty, x) ==
  IF ty = LegacyTxType THEN
    /\ x.t = "l" /\ Len(x.e) = 9
    /\ IsRlpUint64(x.e[1]) /\ IsRlpInt(x.e[2]) /\ IsRlpUint64(x.e[3])
    /\ IsRlpOptAddress(x.e[4]) /\ IsRlpInt(x.e[5]) /\ x.e[6].t = "s"
    /\ IsRlpInt(x.e[7]) /\ IsRlpInt(x.e[8]) /\ IsRlpInt(x.e[9])
  ELSE IF ty = AccessListTxType THEN
    /\ x.t = "l" /\ Len(x.e) = 11
    /\ IsRlpInt(x.e[1]) /\ IsRlpUint64(x.e[2]) /\ IsRlpInt(x.e[3]) /\ IsRlpUint64(x.e[4])
    /\ IsRlpOptAddress(x.e[5]) /\ IsRlpInt(x.e[6]) /\ x.e[7].t = "s"
    /\ IsRlpAccessList(x.e[8])
    /\ IsRlpInt(x.e[9]) /\ IsRlpInt(x.e[10]) /\ IsRlpInt(x.e[11])
  ELSE
    /\ x.t = "l" /\ Len(x.e) = 12
    /\ IsRlpInt(x.e[1]) /\ IsRlpUint64(x.e[2]) /\ IsRlpInt(x.e[3]) /\ IsRlpInt(x.e[4])
    /\ IsRlpUint64(x.e[5]) /\ IsRlpOptAddress(x.e[6]) /\ IsRlpInt(x.e[7]) /\ x.e[8].t = "s"
    /\ IsRlpAccessList(x.e[9])
    /\ IsRlpInt(x.e[10]) /\ IsRlpInt(x.e[11]) /\ IsRlpInt(x.e[12])

\* the transaction of type ty the field list x decodes into
TxOf(ty, x) ==
  IF ty = LegacyTxType THEN
    [ZeroTx EXCEPT !.Type = LegacyTxType, !.Nonce = SetBytes(x.e[1].b),
       !.GasPrice = SetBytes(x.e[2].b), !.Gas = SetBytes(x.e[3].b), !.To = x.e[4].b,
       !.Value = SetBytes(x.e[5].b), !.Data = x.e[6].b, !.V = SetBytes(x.e[7].b),
       !.R = SetBytes(x.e[8].b), !.S = SetBytes(x.e[9].b)]
  ELSE IF ty = AccessListTxType THEN
    [ZeroTx EXCEPT !.Type = AccessListTxType, !.ChainID = SetBytes(x.e[1].b),
       !.Nonce = SetBytes(x.e[2].b), !.GasPrice = SetBytes(x.e[3].b),
       !.Gas = SetBytes(x.e[4].b), !.To = x.e[5].b, !.Value = SetBytes(x.e[6].b),
       !.Data = x.e[7].b, !.AccessList = AccessListOf(x.e[8]), !.V = SetBytes(x.e[9].b),
       !.R = SetBytes(x.e[10].b), !.S = SetBytes(x.e[11].b)]
  ELSE
    [ZeroTx EXCEPT !.Type = DynamicFeeTxType, !.ChainID = SetBytes(x.e[1].b),
       !.Nonce = SetBytes(x.e[2].b), !.GasTipCap = SetBytes(x.e[3].b),
       !.GasFeeCap = SetBytes(x.e[4].b), !.Gas = SetBytes(x.e[5].b), !.To = x.e[6].b,
       !.Value = SetBytes(x.e[7].b), !.Data = x.e[8].b, !.AccessList = AccessListOf(x.e[9]),
       !.V = SetBytes(x.e[10].b), !.R = SetBytes(x.e[11].b), !.S = SetBytes(x.e[12].b)]

\* types.Transaction.UnmarshalBinary: a first byte above 0x7f is a legacy RLP list,
\* otherwise the first byte is the type of the envelope
UnmarshalBinary(b) ==
  LET invalid == [err |-> "rlp: invalid transaction", tx |-> ZeroTx]
      decoded(ty, r) == IF r.ok /\ IsTxItem(ty, r.item)
                        THEN [err |-> NoErr, tx |-> TxOf(ty, r.item)]
                        ELSE invalid
  IN IF Len(b) > 0 /\ b[1] > 127 THEN decoded(LegacyTxType, RlpDecodeBytes(b))
     ELSE IF Len(b) = 0 THEN [err |-> "empty typed transaction bytes", tx |-> ZeroTx]
     ELSE IF b[1] \in {AccessListTxType, DynamicFeeTxType}
     THEN decoded(b[1], RlpDecodeBytes(Tail(b)))
     ELSE [err |-> "transaction type not supported", tx |-> ZeroTx]

unpackTxType(tx) == Bytes(<<tx.Type>>)
unpackChainID(tx) == IF tx.Type = LegacyTxType THEN Null ELSE Bytes(BigBytes(tx.ChainID))
\* unpackAccountNonce that writes the nonce without leading zero bytes
unpackAccountNonce_minimal(tx) == Bytes(BigBytes(tx.Nonce))
unpackAccountNonce(tx) == Bytes(PutUint64(tx.Nonce))
\* tx.GasPrice(): the fee cap stands in for the gas price of a dynamic fee transaction
unpackGasPrice(tx) ==
  Bytes(BigBytes(IF tx.Type = DynamicFeeTxType THEN tx.GasFeeCap ELSE tx.GasPrice))
unpackGasLimit(tx) == Bytes(PutUint64(tx.Gas))
unpackRecipient(tx) == IF tx.To = <<>> THEN Null ELSE Bytes(tx.To)
unpackAmount(tx) == Bytes(BigBytes(tx.Value))
unpackData(tx) == Bytes(tx.Data)
\* unpackAccessList that gives null for an access list without entries
unpackAccessList_emptyNull(tx) ==
  IF Len(tx.AccessList) = 0 THEN Null
  ELSE ListNode([i \in 1..Len(tx.AccessList) |->
         MapNode([Address |-> Bytes(tx.AccessList[i].Address),
                  StorageKeys |->
                    ListNode([j \in 1..Len(tx.AccessList[i].StorageKeys) |->
                                Bytes(tx.AccessList[i].StorageKeys[j])])])])
unpackAccessList(tx) ==
  IF tx.Type = LegacyTxType THEN Null
  ELSE ListNode([i \in 1..Len(tx.AccessList) |->
         MapNode([Address |-> Bytes(tx.AccessList[i].Address),
                  StorageKeys |->
                    ListNode([j \in 1..Len(tx.AccessList[i].StorageKeys) |->
                                Bytes(tx.AccessList[i].StorageKeys[j])])])])

\* the map RequiredUnpackFuncs assemble, in their order
RequiredUnpackFuncs(tx) ==
  [TxType |-> unpackTxType(tx), ChainID |-> unpackChainID(tx),
   AccountNonce |-> unpackAccountNonce(tx), GasPrice |-> unpackGasPrice(tx),
   GasLimit |-> unpackGasLimit(tx), Recipient |-> unpackRecipient(tx),
   Amount |-> unpackAmount(tx), Data |-> unpackData(tx),
   AccessList |-> unpackAccessList(tx),
   R |-> Bytes(BigBytes(tx.R)), S |-> Bytes(BigBytes(tx.S)), V |-> Bytes(BigBytes(tx.V))]

\* tx.DecodeBytes
tx_DecodeBytes(src) ==
  LET unpack(u) == IF u.err # NoErr THEN R(u.err, Null)
                   ELSE R(NoErr, MapNode(RequiredUnpackFuncs(u.tx)))
  IN unpack(UnmarshalBinary(src))

(***************************************************************************)
(* Reading a graph node on encode.  A result is [err, val].                *)
(***************************************************************************)
V(err, val) == [err |-> err, val |-> val]

\* node.LookupByString(key)
LookupByString(node, key) ==
  IF HasKey(node, key) THEN V(NoErr, node.m[key]) ELSE V("key not found", Null)

\* node.LookupByString(key) followed by AsBytes()
LookupBytes(node, key) ==
  LET n == LookupByString(node, key) IN
    IF n.err # NoErr THEN V(n.err, <<>>)
    ELSE IF n.val.k # "bytes" THEN V("wrong kind", <<>>)
    ELSE V(NoErr, n.val.v)

\* the error of the first step that failed
RECURSIVE FirstErr(_)
FirstErr(steps) ==
  IF Len(steps) = 0 THEN NoErr
  ELSE IF Head(steps).err # NoErr THEN Head(steps).err
  ELSE FirstErr(Tail(steps))

\* GetTxType returns the eth tx type
GetTxType(node) ==
  LET b == LookupBytes(node, "TxType") IN
    IF b.err # NoErr THEN V(b.err, 0)
    ELSE IF Len(b.val) # 1 THEN V("tx type should be a single byte", 0)
    ELSE V(NoErr, b.val[1])

(***************************************************************************)
(* tx/marshal.go: packing a graph node into a go-ethereum transaction.     *)
(***************************************************************************)
\* packChainID, packGasPrice, packGasTipCap, packGasFeeCap, packAmount, packBalance:
\* a big integer field under key, new(big.Int).SetBytes(bytes)
packBigInt(node, key) ==
  LET b == LookupBytes(node, key) IN
    IF b.err # NoErr THEN V(b.err, 0) ELSE V(NoErr, SetBytes(b.val))

\* packAccountNonce, packGasLimit, packCumulativeGasUsed, packNonce: a uint64 field
\* under key, binary.BigEndian.Uint64(bytes), which indexes bytes[7]
packUint64(node, key) ==
  LET b == LookupBytes(node, key) IN
    IF b.err # NoErr THEN V(b.err, 0)
    ELSE IF Len(b.val) < 8 THEN V("panic: index out of range", 0)
    ELSE V(NoErr, Uint64(b.val))

\* packData of the transaction and of the log encoder
packData(node) == LookupBytes(node, "Data")

\* packRecipient that sets the zero address as destination for a null Recipient
packRecipient_zeroAddress(node) ==
  LET n == LookupByString(node, "Recipient") IN
    IF n.err # NoErr THEN V(n.err, <<>>)
    ELSE IF IsNull(n.val) THEN V(NoErr, BytesToFixed(AddressLength, <<>>))
    ELSE IF n.val.k # "bytes" THEN V("wrong kind", <<>>)
    ELSE V(NoErr, BytesToFixed(AddressLength, n.val.v))
packRecipient(node) ==
  LET n == LookupByString(node, "Recipient") IN
    IF n.err # NoErr THEN V(n.err, <<>>)
    ELSE IF IsNull(n.val) THEN V(NoErr, <<>>)
    ELSE IF n.val.k # "bytes" THEN V("wrong kind", <<>>)
    ELSE V(NoErr, BytesToFixed(AddressLength, n.val.v))

\* one element of the access list
createAccessElement(el) ==
  LET a == LookupBytes(el, "Address")
      ks == LookupByString(el, "StorageKeys")
  IN IF a.err # NoErr THEN V(a.err, <<>>)
     ELSE IF ks.err # NoErr THEN V(ks.err, <<>>)
     ELSE IF ks.val.k # "list" THEN V("panic: makeslice: len out of range", <<>>)
     ELSE IF \E j \in 1..Len(ks.val.l) : ks.val.l[j].k # "bytes" THEN V("wrong kind", <<>>)
     ELSE V(NoErr, [Address |-> BytesToFixed(AddressLength, a.val),
                    StorageKeys |-> [j \in 1..Len(ks.val.l) |-> BytesToFixed(HashLength, ks.val.l[j].v)]])

createAccessList(node) ==
  LET n == LookupByString(node, "AccessList")
      list(els) == IF FirstErr(els) # NoErr THEN V(FirstErr(els), <<>>)
                   ELSE V(NoErr, [i \in 1..Len(els) |-> els[i].val])
  IN IF n.err # NoErr THEN V(n.err, <<>>)
     ELSE IF n.val.k # "list" THEN V("panic: makeslice: len out of range", <<>>)
     ELSE list([i \in 1..Len(n.val.l) |-> createAccessElement(n.val.l[i])])

createVRS(node) ==
  LET sig(v, r, s) == V(FirstErr(<<v, r, s>>), [V |-> v.val, R |-> r.val, S |-> s.val])
  IN sig(packBigInt(node, "V"), packBigInt(node, "R"), packBigInt(node, "S"))

packLegacyTx(node) ==
  LET tx(n, gp, gl, to, a, d, sig) ==
        V(FirstErr(<<n, gp, gl, to, a, d, sig>>),
          [ZeroTx EXCEPT !.Type = LegacyTxType, !.Nonce = n.val, !.GasPrice = gp.val,
             !.Gas = gl.val, !.To = to.val, !.Value = a.val, !.Data = d.val,
             !.V = sig.val.V, !.R = sig.val.R, !.S = sig.val.S])
  IN tx(packUint64(node, "AccountNonce"), packBigInt(node, "GasPrice"),
        packUint64(node, "GasLimit"), packRecipient(node), packBigInt(node, "Amount"),
        packData(node), createVRS(node))

packAccessListTx(node) ==
  LET tx(c, n, gp, gl, to, a, d, al, sig) ==
        V(FirstErr(<<c, n, gp, gl, to, a, d, al, sig>>),
          [ZeroTx EXCEPT !.Type = AccessListTxType, !.ChainID = c.val, !.Nonce = n.val,
             !.GasPrice = gp.val, !.Gas = gl.val, !.To = to.val, !.Value = a.val,
             !.Data = d.val, !.AccessList = al.val,
             !.V = sig.val.V, !.R = sig.val.R, !.S = sig.val.S])
  IN tx(packBigInt(node, "ChainID"), packUint64(node, "AccountNonce"),
        packBigInt(node, "GasPrice"), packUint64(node, "GasLimit"), packRecipient(node),
        packBigInt(node, "Amount"), packData(node), createAccessList(node),
        createVRS(node))

packDynamicFeeTx(node) ==
  LET tx(c, n, tc, fc, gl, to, a, d, al, sig) ==
        V(FirstErr(<<c, n, tc, fc, gl, to, a, d, al, sig>>),
          [ZeroTx EXCEPT !.Type = DynamicFeeTxType, !.ChainID = c.val, !.Nonce = n.val,
             !.GasTipCap = tc.val, !.GasFeeCap = fc.val, !.Gas = gl.val, !.To = to.val,
             !.Value = a.val, !.Data = d.val, !.AccessList = al.val,
             !.V = sig.val.V, !.R = sig.val.R, !.S = sig.val.S])
  IN tx(packBigInt(node, "ChainID"), packUint64(node, "AccountNonce"),
        packBigInt(node, "GasTipCap"), packBigInt(node, "GasFeeCap"),
        packUint64(node, "GasLimit"), packRecipient(node), packBigInt(node, "Amount"),
        packData(node), createAccessList(node), createVRS(node))

\* AppendEncode whose switch packs every other type tag as a legacy transaction
tx_AppendEncode_defaultLegacy(enc, inNode) ==
  LET legacy(p) == IF p.err # NoErr THEN V(p.err, enc)
                   ELSE V(NoErr, enc \o RlpEncode(TxItem(p.val)))
      typed(txType, p) == IF p.err # NoErr THEN V(p.err, enc)
                          ELSE V(NoErr, (enc \o <<txType>>) \o RlpEncode(TxItem(p.val)))
      encode(ty) ==
        IF ty.err # NoErr THEN V(ty.err, enc)
        ELSE IF ty.val = AccessListTxType THEN typed(ty.val, packAccessListTx(inNode))
        ELSE IF ty.val = DynamicFeeTxType THEN typed(ty.val, packDynamicFeeTx(inNode))
        ELSE legacy(packLegacyTx(inNode))
  IN encode(GetTxType(inNode))

\* AppendEncode that appends the type byte before it packs the node
tx_AppendEncode_prefixFirst(enc, inNode) ==
  LET legacy(p) == IF p.err # NoErr THEN V(p.err, enc)
                   ELSE V(NoErr, enc \o RlpEncode(TxItem(p.val)))
      typed(txType, p) == IF p.err # NoErr THEN V(p.err, enc \o <<txType>>)
                          ELSE V(NoErr, (enc \o <<txType>>) \o RlpEncode(TxItem(p.val)))
      encode(ty) ==
        IF ty.err # NoErr THEN V(ty.err, enc)
        ELSE IF ty.val = LegacyTxType THEN legacy(packLegacyTx(inNode))
        ELSE IF ty.val = AccessListTxType THEN typed(ty.val, packAccessListTx(inNode))
        ELSE IF ty.val = DynamicFeeTxType THEN typed(ty.val, packDynamicFeeTx(inNode))
        ELSE V("unrecognized TxType", enc)
  IN encode(GetTxType(inNode))

\* tx.AppendEncode(enc, inNode): val is the returned buffer
tx_AppendEncode(enc, inNode) ==
  LET legacy(p) == IF p.err # NoErr THEN V(p.err, enc)
                   ELSE V(NoErr, enc \o RlpEncode(TxItem(p.val)))
      typed(txType, p) == IF p.err # NoErr THEN V(p.err, enc)
                          ELSE V(NoErr, (enc \o <<txType>>) \o RlpEncode(TxItem(p.val)))
      encode(ty) ==
        IF ty.err # NoErr THEN V(ty.err, enc)
        ELSE IF ty.val = LegacyTxType THEN legacy(packLegacyTx(inNode))
        ELSE IF ty.val = AccessListTxType THEN typed(ty.val, packAccessListTx(inNode))
        ELSE IF ty.val = DynamicFeeTxType THEN typed(ty.val, packDynamicFeeTx(inNode))
        ELSE V("unrecognized TxType", enc)
  IN encode(GetTxType(inNode))

\* tx.Encode(node, w): val is what was written to w
tx_Encode(node) ==
  LET write(e) == IF e.err # NoErr THEN V(e.err, <<>>) ELSE V(NoErr, e.val)
  IN write(tx_AppendEncode(<<>>, node))

(***************************************************************************)
(* Receipts: rct/unmarshal.go (decode) and rct/marshal.go (encode).  A     *)
(* go-ethereum types.Receipt is a record; PostState = <<>> is "no root".   *)
(***************************************************************************)
BloomByteLength == 256
ReceiptStatusFailed == 0
ReceiptStatusSuccessful == 1

\* the status bytes the decoder stores in the graph node
receiptStatusFailedRLP == PutUint64(ReceiptStatusFailed)
receiptStatusSuccessfulRLP == PutUint64(ReceiptStatusSuccessful)

\* the consensus RLP item of a log: address, topics, data
LogItem(l) == RList(<<RStr(l.Address), RHashes(l.Topics), RStr(l.Data)>>)
IsLogItem(x) ==
  /\ x.t = "l" /\ Len(x.e) = 3
  /\ IsRlpFixed(x.e[1], AddressLength) /\ IsRlpHashList(x.e[2]) /\ x.e[3].t = "s"
LogOf(x) ==
  [Address |-> x.e[1].b, Topics |-> [j \in 1..Len(x.e[2].e) |-> x.e[2].e[j].b],
   Data |-> x.e[3].b]

\* receiptRLP: PostStateOrStatus, CumulativeGasUsed, Bloom, Logs
ReceiptItem(psos, cgu, bloom, logs) ==
  RList(<<RStr(psos), RUint(cgu), RStr(bloom), RList([i \in 1..Len(logs) |-> LogItem(logs[i])])>>)
IsReceiptItem(x) ==
  /\ x.t = "l" /\ Len(x.e) = 4
  /\ x.e[1].t = "s" /\ IsRlpUint64(x.e[2]) /\ IsRlpFixed(x.e[3], BloomByteLength)
  /\ x.e[4].t = "l" /\ \A i \in 1..Len(x.e[4].e) : IsLogItem(x.e[4].e[i])

ZeroReceipt ==
  [Type |-> 0, PostState |-> <<>>, Status |-> 0, CumulativeGasUsed |-> 0,
   Bloom |-> Fill(BloomByteLength, 0), Logs |-> <<>>]

\* types.Receipt.MarshalBinary; the status slot holds the root, or 0x01 / empty for
\* the status
rct_MarshalBinary(r) ==
  LET statusEncoding == IF Len(r.PostState) = 0
                        THEN (IF r.Status = ReceiptStatusFailed THEN <<>> ELSE <<1>>)
                        ELSE r.PostState
      item == ReceiptItem(statusEncoding, r.CumulativeGasUsed, r.Bloom, r.Logs)
  IN
    IF r.Type = LegacyTxType THEN RlpEncode(item) ELSE <<r.Type>> \o RlpEncode(item)

\* setFromRLP that reads every slot other than 0x01 and a root as a failed status
setFromRLP_lenient(ty, x) ==
  LET psos == x.e[1].b
      rest == [ZeroReceipt EXCEPT !.Type = ty, !.CumulativeGasUsed = SetBytes(x.e[2].b),
                 !.Bloom = x.e[3].b,
                 !.Logs = [i \in 1..Len(x.e[4].e) |-> LogOf(x.e[4].e[i])]]
  IN IF psos = <<1>> THEN [err |-> NoErr, rct |-> [rest EXCEPT !.Status = ReceiptStatusSuccessful]]
     ELSE IF Len(psos) = HashLength THEN [err |-> NoErr, rct |-> [rest EXCEPT !.PostState = psos]]
     ELSE [err |-> NoErr, rct |-> [rest EXCEPT !.Status = ReceiptStatusFailed]]

\* Receipt.setFromRLP with setStatus
setFromRLP(ty, x) ==
  LET psos == x.e[1].b
      rest == [ZeroReceipt EXCEPT !.Type = ty, !.CumulativeGasUsed = SetBytes(x.e[2].b),
                 !.Bloom = x.e[3].b,
                 !.Logs = [i \in 1..Len(x.e[4].e) |-> LogOf(x.e[4].e[i])]]
  IN IF psos = <<1>> THEN [err |-> NoErr, rct |-> [rest EXCEPT !.Status = ReceiptStatusSuccessful]]
     ELSE IF psos = <<>> THEN [err |-> NoErr, rct |-> [rest EXCEPT !.Status = ReceiptStatusFailed]]
     ELSE IF Len(psos) = HashLength THEN [err |-> NoErr, rct |-> [rest EXCEPT !.PostState = psos]]
     ELSE [err |-> "invalid receipt status", rct |-> ZeroReceipt]

\* types.Receipt.UnmarshalBinary
rct_UnmarshalBinary(b) ==
  LET receipt(ty, r) == IF r.ok /\ IsReceiptItem(r.item) THEN setFromRLP(ty, r.item)
                        ELSE [err |-> "rlp: invalid receipt", rct |-> ZeroReceipt]
  IN IF Len(b) > 0 /\ b[1] > 127 THEN receipt(LegacyTxType, RlpDecodeBytes(b))
     ELSE IF Len(b) = 0 THEN [err |-> "empty typed receipt bytes", rct |-> ZeroReceipt]
     ELSE IF b[1] \in {AccessListTxType, DynamicFeeTxType}
     THEN receipt(b[1], RlpDecodeBytes(Tail(b)))
     ELSE [err |-> "transaction type not supported", rct |-> ZeroReceipt]

rct_unpackTxType(rct) == Bytes(<<rct.Type>>)

\* unpackPostStateOrStatus that keeps the status next to a post-state root
unpackPostStateOrStatus_both(rct) ==
  IF rct.Status = ReceiptStatusFailed
  THEN V(NoErr, [PostState |-> Bytes(rct.PostState), Status |-> Bytes(receiptStatusFailedRLP)])
  ELSE V(NoErr, [PostState |-> Bytes(rct.PostState), Status |-> Bytes(receiptStatusSuccessfulRLP)])

\* the two keys unpackPostStateOrStatus assembles
unpackPostStateOrStatus(rct) ==
  IF Len(rct.PostState) > 0
  THEN V(NoErr, [PostState |-> Bytes(rct.PostState), Status |-> Null])
  ELSE IF rct.Status = ReceiptStatusFailed
  THEN V(NoErr, [PostState |-> Null, Status |-> Bytes(receiptStatusFailedRLP)])
  ELSE IF rct.Status = ReceiptStatusSuccessful
  THEN V(NoErr, [PostState |-> Null, Status |-> Bytes(receiptStatusSuccessfulRLP)])
  ELSE V("unrecognized Receipt Status", [PostState |-> Null, Status |-> Null])

unpackCumulativeGasUsed(rct) == Bytes(PutUint64(rct.CumulativeGasUsed))
unpackBloom(rct) == Bytes(rct.Bloom)

\* the graph node of one log: Address, Data, Topics
unpackLog(l) ==
  MapNode([Address |-> Bytes(l.Address), Data |-> Bytes(l.Data),
           Topics |-> ListNode([j \in 1..Len(l.Topics) |-> Bytes(l.Topics[j])])])
unpackLogs(rct) == ListNode([i \in 1..Len(rct.Logs) |-> unpackLog(rct.Logs[i])])

\* rct.DecodeReceipt: the map requiredUnpackFuncs assemble
DecodeReceipt(receipt) ==
  LET ps == unpackPostStateOrStatus(receipt) IN
    IF ps.err # NoErr THEN R(ps.err, Null)
    ELSE R(NoErr, MapNode([Type |-> rct_unpackTxType(receipt),
                           PostState |-> ps.val.PostState, Status |-> ps.val.Status,
                           CumulativeGasUsed |-> unpackCumulativeGasUsed(receipt),
                           Bloom |-> unpackBloom(receipt), Logs |-> unpackLogs(receipt)]))

\* rct.DecodeBytes
rct_DecodeBytes(src) ==
  LET decode(u) == IF u.err # NoErr THEN R(u.err, Null) ELSE DecodeReceipt(u.rct)
  IN decode(rct_UnmarshalBinary(src))

\* node.LookupByString(key) followed by AsLink()
LookupLink(node, key) ==
  LET n == LookupByString(node, key) IN
    IF n.err # NoErr THEN V(n.err, Null)
    ELSE IF n.val.k # "link" THEN V("wrong kind", Null)
    ELSE V(NoErr, n.val)

\* types.BytesToBloom: left-padded to 256 bytes, panics on a longer input
BytesToBloom(b) ==
  IF Len(b) > BloomByteLength THEN V("panic: bloom bytes too big", <<>>)
  ELSE V(NoErr, Fill(BloomByteLength - Len(b), 0) \o b)

packPostStateOrStatus(node) == LookupBytes(node, "PostStateOrStatus")
packBloom(node) ==
  LET b == LookupBytes(node, "Bloom") IN
    IF b.err # NoErr THEN V(b.err, <<>>) ELSE BytesToBloom(b.val)

\* packTopics of the log encoder and the topic loop of packLogs: each topic cropped
\* or padded to a hash
packTopics(node) ==
  LET t == LookupByString(node, "Topics") IN
    IF t.err # NoErr THEN V(t.err, <<>>)
    ELSE IF t.val.k # "list" THEN V("panic: makeslice: len out of range", <<>>)
    ELSE IF \E j \in 1..Len(t.val.l) : t.val.l[j].k # "bytes" THEN V("wrong kind", <<>>)
    ELSE V(NoErr, [j \in 1..Len(t.val.l) |-> BytesToFixed(HashLength, t.val.l[j].v)])

\* one log of packLogs: Address, Topics, Data in that order
packLog(logNode) ==
  LET log(a, t, d) == V(FirstErr(<<a, t, d>>),
                        [Address |-> BytesToFixed(AddressLength, a.val), Topics |-> t.val, Data |-> d.val])
  IN log(LookupBytes(logNode, "Address"), packTopics(logNode), LookupBytes(logNode, "Data"))

packLogs(node) ==
  LET n == LookupByString(node, "Logs")
      logs(ls) == IF FirstErr(ls) # NoErr THEN V(FirstErr(ls), <<>>)
                  ELSE V(NoErr, [i \in 1..Len(ls) |-> ls[i].val])
  IN IF n.err # NoErr THEN V(n.err, <<>>)
     ELSE IF n.val.k # "list" THEN V("panic: makeslice: len out of range", <<>>)
     ELSE logs([i \in 1..Len(n.val.l) |-> packLog(n.val.l[i])])

\* rct.AppendEncode(enc, inNode): val is the returned buffer (nil is <<>>)
rct_AppendEncode(enc, inNode) ==
  LET encode(ty, ps, cgu, bl, logs) ==
        IF ty.err # NoErr THEN V(ty.err, enc)
        ELSE IF FirstErr(<<ps, cgu, bl, logs>>) # NoErr
        THEN V(FirstErr(<<ps, cgu, bl, logs>>), <<>>)
        ELSE IF ty.val = LegacyTxType
        THEN V(NoErr, enc \o RlpEncode(ReceiptItem(ps.val, cgu.val, bl.val, logs.val)))
        ELSE IF ty.val = AccessListTxType
        THEN V(NoErr, (enc \o <<ty.val>>)
                        \o RlpEncode(ReceiptItem(ps.val, cgu.val, bl.val, logs.val)))
        ELSE V("unrecognized TxType", enc)
  IN encode(GetTxType(inNode), packPostStateOrStatus(inNode),
            packUint64(inNode, "CumulativeGasUsed"),
            packBloom(inNode), packLogs(inNode))

\* rct.Encode(node, w): val is what was written to w
rct_Encode(node) ==
  LET write(e) == IF e.err # NoErr THEN V(e.err, <<>>) ELSE V(NoErr, e.val)
  IN write(rct_AppendEncode(<<>>, node))

(***************************************************************************)
(* State accounts: the account decoder and state_account/marshal.go.       *)
(***************************************************************************)
\* state.Account as RLP: nonce, balance, storage root, code hash
AccountItem(a) == RList(<<RUint(a.Nonce), RUint(a.Balance), RStr(a.Root), RStr(a.CodeHash)>>)
IsAccountItem(x) ==
  /\ x.t = "l" /\ Len(x.e) = 4
  /\ IsRlpUint64(x.e[1]) /\ IsRlpInt(x.e[2]) /\ IsRlpFixed(x.e[3], HashLength)
  /\ x.e[4].t = "s"
AccountOf(x) ==
  [Nonce |-> SetBytes(x.e[1].b), Balance |-> SetBytes(x.e[2].b), Root |-> x.e[3].b,
   CodeHash |-> x.e[4].b]

MultiHashType == KECCAK_256

unpackNonce(account) == Bytes(PutUint64(account.Nonce))
unpackBalance(account) == Bytes(BigBytes(account.Balance))
\* unpackStorageRootCID that tags the link as a state trie node
unpackStorageRootCID_stateTrie(account) ==
  [k |-> "link", codec |-> EthStateTrie, mhType |-> MultiHashType, digest |-> account.Root]
unpackStorageRootCID(account) ==
  [k |-> "link", codec |-> EthStorageTrie, mhType |-> MultiHashType, digest |-> account.Root]
\* the code link is built from account.Root
unpackCodeCID(account) ==
  [k |-> "link", codec |-> Raw, mhType |-> MultiHashType, digest |-> account.Root]

\* account.DecodeAccount
DecodeAccount(account) ==
  R(NoErr, MapNode([Nonce |-> unpackNonce(account), Balance |-> unpackBalance(account),
                    StorageRootCID |-> unpackStorageRootCID(account),
                    CodeCID |-> unpackCodeCID(account)]))

\* account.DecodeBytes
account_DecodeBytes(src) ==
  LET decode(r) == IF r.ok /\ IsAccountItem(r.item) THEN DecodeAccount(AccountOf(r.item))
                   ELSE R("rlp: invalid account", Null)
  IN decode(RlpDecodeBytes(src))

packStorageRootCID(node) ==
  LET l == LookupLink(node, "StorageRootCID") IN
    IF l.err # NoErr THEN V(l.err, <<>>) ELSE V(NoErr, BytesToFixed(HashLength, DecodedDigest(l.val)))
packCodeCID(node) ==
  LET l == LookupLink(node, "CodeCID") IN
    IF l.err # NoErr THEN V(l.err, <<>>) ELSE V(NoErr, DecodedDigest(l.val))

\* account.EncodeAccount
EncodeAccount(inNode) ==
  LET account(n, b, sr, c) ==
        V(FirstErr(<<n, b, sr, c>>),
          [Nonce |-> n.val, Balance |-> b.val, Root |-> sr.val, CodeHash |-> c.val])
  IN account(packUint64(inNode, "Nonce"), packBigInt(inNode, "Balance"), packStorageRootCID(inNode),
             packCodeCID(inNode))

\* account.AppendEncode(enc, inNode)
account_AppendEncode(enc, inNode) ==
  LET encode(a) == IF a.err # NoErr THEN V(a.err, enc)
                   ELSE V(NoErr, enc \o RlpEncode(AccountItem(a.val)))
  IN encode(EncodeAccount(inNode))

\* account.Encode(node, w)
account_Encode(node) ==
  LET write(e) == IF e.err # NoErr THEN V(e.err, <<>>) ELSE V(NoErr, e.val)
  IN write(account_AppendEncode(<<>>, node))

(***************************************************************************)
(* Uncles: a list of headers, header/unmarshal.go and uncles/.             *)
(***************************************************************************)
EthBlockList == 145
EthTx == 147
EthTxReceipt == 149

\* the consensus RLP item of a header, its 15 fields in order
HeaderItem(h) ==
  RList(<<RStr(h.ParentHash), RStr(h.UncleHash), RStr(h.Coinbase), RStr(h.Root),
          RStr(h.TxHash), RStr(h.ReceiptHash), RStr(h.Bloom), RUint(h.Difficulty),
          RUint(h.Number), RUint(h.GasLimit), RUint(h.GasUsed), RUint(h.Time),
          RStr(h.Extra), RStr(h.MixDigest), RStr(h.Nonce)>>)
IsHeaderItem(x) ==
  /\ x.t = "l" /\ Len(x.e) = 15
  /\ IsRlpFixed(x.e[1], HashLength) /\ IsRlpFixed(x.e[2], HashLength)
  /\ IsRlpFixed(x.e[3], AddressLength) /\ IsRlpFixed(x.e[4], HashLength)
  /\ IsRlpFixed(x.e[5], HashLength) /\ IsRlpFixed(x.e[6], HashLength)
  /\ IsRlpFixed(x.e[7], BloomByteLength) /\ IsRlpInt(x.e[8]) /\ IsRlpInt(x.e[9])
  /\ IsRlpUint64(x.e[10]) /\ IsRlpUint64(x.e[11]) /\ IsRlpUint64(x.e[12])
  /\ x.e[13].t = "s" /\ IsRlpFixed(x.e[14], HashLength)
  /\ IsRlpFixed(x.e[15], 8)
HeaderOf(x) ==
  [ParentHash |-> x.e[1].b, UncleHash |-> x.e[2].b, Coinbase |-> x.e[3].b,
   Root |-> x.e[4].b, TxHash |-> x.e[5].b, ReceiptHash |-> x.e[6].b, Bloom |-> x.e[7].b,
   Difficulty |-> SetBytes(x.e[8].b), Number |-> SetBytes(x.e[9].b),
   GasLimit |-> SetBytes(x.e[10].b), GasUsed |-> SetBytes(x.e[11].b),
   Time |-> SetBytes(x.e[12].b), Extra |-> x.e[13].b, MixDigest |-> x.e[14].b,
   Nonce |-> x.e[15].b]

\* header.DecodeHeader: the map requiredUnpackFuncs assemble
DecodeHeader(header) ==
  R(NoErr,
    MapNode([ParentCID |-> Keccak256ToCid(EthBlock, header.ParentHash),
             UnclesCID |-> Keccak256ToCid(EthBlockList, header.UncleHash),
             Coinbase |-> Bytes(header.Coinbase),
             StateRootCID |-> Keccak256ToCid(EthStateTrie, header.Root),
             TxRootCID |-> Keccak256ToCid(EthTx, header.TxHash),
             RctRootCID |-> Keccak256ToCid(EthTxReceipt, header.ReceiptHash),
             Bloom |-> Bytes(header.Bloom),
             Difficulty |-> Bytes(BigBytes(header.Difficulty)),
             Number |-> Bytes(BigBytes(header.Number)),
             GasLimit |-> Bytes(PutUint64(header.GasLimit)),
             GasUsed |-> Bytes(PutUint64(header.GasUsed)),
             Time |-> Bytes(PutUint64(header.Time)),
             Extra |-> Bytes(header.Extra),
             MixDigest |-> Bytes(header.MixDigest),
             Nonce |-> Bytes(header.Nonce)]))

\* uncles.DecodeBytes with DecodeUncles: a list node of the decoded headers
uncles_DecodeBytes(src) ==
  LET decode(r) ==
        IF r.ok /\ r.item.t = "l" /\ \A i \in 1..Len(r.item.e) : IsHeaderItem(r.item.e[i])
        THEN R(NoErr, ListNode([i \in 1..Len(r.item.e) |->
                                  DecodeHeader(HeaderOf(r.item.e[i])).node]))
        ELSE R("rlp: invalid uncles", Null)
  IN decode(RlpDecodeBytes(src))

\* the pack functions of the header encoder, applied to one uncle node: each
\* reads its key back into the header
header_RequiredPackFuncs(node) ==
  LET header(p, u, c, sr, tx, rc, bl, d, n, gl, gu, t, e, m, no) ==
        V(FirstErr(<<p, u, c, sr, tx, rc, bl, d, n, gl, gu, t, e, m, no>>),
          [ParentHash |-> BytesToFixed(HashLength, DecodedDigest(p.val)),
           UncleHash |-> BytesToFixed(HashLength, DecodedDigest(u.val)),
           Coinbase |-> BytesToFixed(AddressLength, c.val),
           Root |-> BytesToFixed(HashLength, DecodedDigest(sr.val)),
           TxHash |-> BytesToFixed(HashLength, DecodedDigest(tx.val)),
           ReceiptHash |-> BytesToFixed(HashLength, DecodedDigest(rc.val)),
           Bloom |-> bl.val, Difficulty |-> d.val, Number |-> n.val,
           GasLimit |-> gl.val, GasUsed |-> gu.val, Time |-> t.val, Extra |-> e.val,
           MixDigest |-> BytesToFixed(HashLength, m.val), Nonce |-> no.val])
  IN header(LookupLink(node, "ParentCID"), LookupLink(node, "UnclesCID"),
            LookupBytes(node, "Coinbase"), LookupLink(node, "StateRootCID"),
            LookupLink(node, "TxRootCID"), LookupLink(node, "RctRootCID"),
            packBloom(node), packBigInt(node, "Difficulty"), packBigInt(node, "Number"),
            packUint64(node, "GasLimit"), packUint64(node, "GasUsed"),
            packUint64(node, "Time"), LookupBytes(node, "Extra"),
            LookupBytes(node, "MixDigest"), LookupBytes(node, "Nonce"))

\* uncles.AppendEncode(enc, inNode): the headers are written to wbs, a slice
\* header of its own made from enc, and enc is what is returned
uncles_AppendEncode(enc, inNode) ==
  LET encode(uncles) == V(FirstErr(uncles), enc)
  IN IF inNode.k # "list" THEN V("wrong kind", enc)
     ELSE encode([i \in 1..Len(inNode.l) |-> header_RequiredPackFuncs(inNode.l[i])])

\* uncles.Encode(node, w): val is what was written to w
uncles_Encode(node) ==
  LET write(e) == IF e.err # NoErr THEN V(e.err, <<>>) ELSE V(NoErr, e.val)
  IN write(uncles_AppendEncode(<<>>, node))

(***************************************************************************)
(* Logs: log.DecodeBytes and the log encoder.                              *)
(***************************************************************************)
\* log.DecodeBytes: rlp.DecodeBytes is handed the types.Log by value, not a pointer
\* to it, and refuses that before it reads src
log_DecodeBytes(src) == R("rlp: interface given to Decode must be a pointer", Null)

packAddress(node) ==
  LET a == LookupBytes(node, "Address") IN
    IF a.err # NoErr THEN V(a.err, <<>>) ELSE V(NoErr, BytesToFixed(AddressLength, a.val))

\* log.EncodeLog
EncodeLog(inNode) ==
  LET log(a, t, d) == V(FirstErr(<<a, t, d>>),
                        [Address |-> a.val, Topics |-> t.val, Data |-> d.val])
  IN log(packAddress(inNode), packTopics(inNode), packData(inNode))

\* log.AppendEncode(enc, inNode): nil on error
log_AppendEncode(enc, inNode) ==
  LET encode(l) == IF l.err # NoErr THEN V(l.err, <<>>)
                   ELSE V(NoErr, enc \o RlpEncode(LogItem(l.val)))
  IN encode(EncodeLog(inNode))

\* log.Encode(node, w)
log_Encode(node) ==
  LET write(e) == IF e.err # NoErr THEN V(e.err, <<>>) ELSE V(NoErr, e.val)
  IN write(log_AppendEncode(<<>>, node))

(***************************************************************************)
(* Trie nodes, decode: trie/marshal.go.  nodeFields is the sequence of RLP *)
(* items rlp.DecodeBytes leaves in a []interface{}: a string item is a     *)
(* []byte, a list item a nested []interface{}.                             *)
(***************************************************************************)
\* the NodeKind names, as the keys of the keyed unions
NodeKind ==
  [UNKNOWN_NODE |-> "unknown", BRANCH_NODE |-> "TrieBranchNode",
   EXTENSION_NODE |-> "TrieExtensionNode", LEAF_NODE |-> "TrieLeafNode",
   TX_VALUE |-> "Transaction", RCT_VALUE |-> "Receipt", STATE_VALUE |-> "Account",
   STORAGE_VALUE |-> "Bytes", LOG_VALUE |-> "Log"]

\* fmt.Sprintf("Child%s", strings.ToUpper(strconv.FormatInt(int64(i), 16))) for i = 0..15
ChildKey ==
  <<"Child0", "Child1", "Child2", "Child3", "Child4", "Child5", "Child6", "Child7",
    "Child8", "Child9", "ChildA", "ChildB", "ChildC", "ChildD", "ChildE", "ChildF">>

\* the map with the single entry key: node
Keyed(key, node) == MapNode(key :> node)

\* decodeTwoMemberNode reading the flag from the low nibble of the first byte
decodeTwoMemberNode_lowNibble(i) ==
  IF i[1].t # "s" THEN [err |-> "panic: interface conversion", kind |-> NodeKind.UNKNOWN_NODE, fields |-> <<>>]
  ELSE LET first == i[1].b
           decodedNode == <<RStr(CompactToHex(first)), i[2]>>
       IN IF Len(first) = 0
          THEN [err |-> "panic: index out of range", kind |-> NodeKind.UNKNOWN_NODE, fields |-> <<>>]
          ELSE IF first[1] % 16 \in {0, 1}
          THEN [err |-> NoErr, kind |-> NodeKind.EXTENSION_NODE, fields |-> decodedNode]
          ELSE IF first[1] % 16 \in {2, 3}
          THEN [err |-> NoErr, kind |-> NodeKind.LEAF_NODE, fields |-> decodedNode]
          ELSE [err |-> "unknown hex prefix", kind |-> NodeKind.UNKNOWN_NODE, fields |-> <<>>]

\* decodeTwoMemberNode takes a two-member node, discerns its type and decodes its
\* partial path before returning it
decodeTwoMemberNode(i) ==
  IF i[1].t # "s" THEN [err |-> "panic: interface conversion", kind |-> NodeKind.UNKNOWN_NODE, fields |-> <<>>]
  ELSE LET first == i[1].b
           decodedNode == <<RStr(CompactToHex(first)), i[2]>>
       IN IF Len(first) = 0
          THEN [err |-> "panic: index out of range", kind |-> NodeKind.UNKNOWN_NODE, fields |-> <<>>]
          ELSE IF first[1] \div 16 \in {0, 1}
          THEN [err |-> NoErr, kind |-> NodeKind.EXTENSION_NODE, fields |-> decodedNode]
          ELSE IF first[1] \div 16 \in {2, 3}
          THEN [err |-> NoErr, kind |-> NodeKind.LEAF_NODE, fields |-> decodedNode]
          ELSE [err |-> "unknown hex prefix", kind |-> NodeKind.UNKNOWN_NODE, fields |-> <<>>]

\* unpackValue choosing the union member by what the bytes parse as
unpackValue_sniffed(val, codec) ==
  LET member(key, r) == IF r.err # NoErr THEN R(r.err, Null) ELSE R(NoErr, Keyed(key, r.node))
  IN IF codec \notin {EthTxTrie, EthTxReceiptTrie, EthStateTrie, EthStorageTrie, logTrieMulticodec}
     THEN R("unsupported multicodec type for eth TrieNode unmarshaller", Null)
     ELSE IF tx_DecodeBytes(val).err = NoErr THEN member(NodeKind.TX_VALUE, tx_DecodeBytes(val))
     ELSE IF rct_DecodeBytes(val).err = NoErr THEN member(NodeKind.RCT_VALUE, rct_DecodeBytes(val))
     ELSE IF account_DecodeBytes(val).err = NoErr
     THEN member(NodeKind.STATE_VALUE, account_DecodeBytes(val))
     ELSE IF log_DecodeBytes(val).err = NoErr THEN member(NodeKind.LOG_VALUE, log_DecodeBytes(val))
     ELSE member(NodeKind.STORAGE_VALUE, R(NoErr, Bytes(val)))

\* unpackValue that decodes value bytes holding a two-member leaf list as a trie
\* node once more
unpackValue_nestedNode(val, codec) ==
  LET member(key, r) == IF r.err # NoErr THEN R(r.err, Null) ELSE R(NoErr, Keyed(key, r.node))
      inner == RlpDecodeBytes(val)
      nested == /\ inner.ok /\ inner.item.t = "l" /\ Len(inner.item.e) = 2
                /\ decodeTwoMemberNode(inner.item.e).kind = NodeKind.LEAF_NODE
                /\ inner.item.e[2].t = "s"
      leaf(f) == Keyed(NodeKind.LEAF_NODE,
                       MapNode([PartialPath |-> Bytes(f[1].b),
                                Value |-> Keyed(NodeKind.STORAGE_VALUE, Bytes(f[2].b))]))
  IN IF nested THEN R(NoErr, Keyed("TrieNode", leaf(decodeTwoMemberNode(inner.item.e).fields)))
     ELSE IF codec = EthTxTrie THEN member(NodeKind.TX_VALUE, tx_DecodeBytes(val))
     ELSE IF codec = EthTxReceiptTrie THEN member(NodeKind.RCT_VALUE, rct_DecodeBytes(val))
     ELSE IF codec = EthStateTrie THEN member(NodeKind.STATE_VALUE, account_DecodeBytes(val))
     ELSE IF codec = EthStorageTrie THEN member(NodeKind.STORAGE_VALUE, R(NoErr, Bytes(val)))
     ELSE IF codec = logTrieMulticodec THEN member(NodeKind.LOG_VALUE, log_DecodeBytes(val))
     ELSE R("unsupported multicodec type for eth TrieNode unmarshaller", Null)

\* unpackValue: the union member is chosen by the codec
unpackValue(val, codec) ==
  LET member(key, r) == IF r.err # NoErr THEN R(r.err, Null) ELSE R(NoErr, Keyed(key, r.node))
  IN IF codec = EthTxTrie THEN member(NodeKind.TX_VALUE, tx_DecodeBytes(val))
     ELSE IF codec = EthTxReceiptTrie THEN member(NodeKind.RCT_VALUE, rct_DecodeBytes(val))
     ELSE IF codec = EthStateTrie THEN member(NodeKind.STATE_VALUE, account_DecodeBytes(val))
     ELSE IF codec = EthStorageTrie THEN member(NodeKind.STORAGE_VALUE, R(NoErr, Bytes(val)))
     ELSE IF codec = logTrieMulticodec THEN member(NodeKind.LOG_VALUE, log_DecodeBytes(val))
     ELSE R("unsupported multicodec type for eth TrieNode unmarshaller", Null)

unpackLeafNode(nodeFields, codec) ==
  LET leaf(v) == IF v.err # NoErr THEN R(v.err, Null)
                 ELSE R(NoErr, MapNode([PartialPath |-> Bytes(nodeFields[1].b),
                                        Value |-> v.node]))
  IN IF nodeFields[1].t # "s" THEN R("leaf node requires partial path byte slice", Null)
     ELSE IF nodeFields[2].t # "s" THEN R("leaf node requires value byte slice", Null)
     ELSE leaf(unpackValue(nodeFields[2].b, codec))

unpackExtensionNode(nodeFields, codec) ==
  IF nodeFields[1].t # "s" THEN R("extension node requires partial path byte slice", Null)
  ELSE IF nodeFields[2].t # "s"
  THEN R("unable to assert second member of extension node to type []byte", Null)
  ELSE R(NoErr, MapNode([PartialPath |-> Bytes(nodeFields[1].b),
                         Child |-> Keccak256ToCid(codec, nodeFields[2].b)]))

\* one pass of the loop of unpackBranchNode: the child assigned for slot field
unpackBranchChild(field, codec) ==
  LET inline(leaf) == IF leaf.err # NoErr THEN R(leaf.err, Null)
                      ELSE R(NoErr, Keyed("TrieNode", Keyed(NodeKind.LEAF_NODE, leaf.node)))
      child(d) == IF d.err # NoErr THEN R(d.err, Null)
                  ELSE IF d.kind # NodeKind.LEAF_NODE
                  THEN R("child node included directly in branch must be a leaf", Null)
                  ELSE inline(unpackLeafNode(d.fields, codec))
  IN IF field.t = "s"
     THEN IF Len(field.b) = 0 THEN R(NoErr, Null)
          ELSE IF Len(field.b) = 32
          THEN R(NoErr, Keyed("Link", Keccak256ToCid(codec, field.b)))
          ELSE R("branch node child of unexpected length", Null)
     ELSE IF Len(field.e) # 2 THEN R("unexpected number of entries for leaf node", Null)
     ELSE child(decodeTwoMemberNode(field.e))

\* the 17th member of a branch: null when empty, else the value union
unpackBranchValue(field, codec) ==
  IF field.t # "s" THEN R("branch node 17th member should be a byte array (val)", Null)
  ELSE IF Len(field.b) = 0 THEN R(NoErr, Null)
  ELSE unpackValue(field.b, codec)

\* unpackBranchNode reading the slot after the one the key names
unpackBranchNode_nextSlot(nodeFields, codec) ==
  LET keys == {ChildKey[i] : i \in 1..16} \cup {"Value"}
      branch(fields) ==
        IF FirstErr(fields) # NoErr THEN R(FirstErr(fields), Null)
        ELSE R(NoErr,
               MapNode([key \in keys |->
                          IF key = "Value" THEN fields[17].node
                          ELSE fields[CHOOSE i \in 1..16 : ChildKey[i] = key].node]))
  IN branch([i \in 1..17 |-> IF i = 17 THEN unpackBranchValue(nodeFields[17], codec)
                             ELSE unpackBranchChild(nodeFields[i + 1], codec)])

unpackBranchNode(nodeFields, codec) ==
  LET keys == {ChildKey[i] : i \in 1..16} \cup {"Value"}
      branch(fields) ==
        IF FirstErr(fields) # NoErr THEN R(FirstErr(fields), Null)
        ELSE R(NoErr,
               MapNode([key \in keys |->
                          IF key = "Value" THEN fields[17].node
                          ELSE fields[CHOOSE i \in 1..16 : ChildKey[i] = key].node]))
  IN branch([i \in 1..17 |-> IF i = 17 THEN unpackBranchValue(nodeFields[17], codec)
                             ELSE unpackBranchChild(nodeFields[i], codec)])

\* DecodeTrieNodeBytes is like DecodeTrieNode, but it uses an input buffer directly;
\* a list of neither 2 nor 17 members falls through the switch to ma.Finish()
DecodeTrieNodeBytes(src, codec) ==
  LET union(kind, n) == IF n.err # NoErr THEN R(n.err, Null)
                        ELSE R(NoErr, Keyed(kind, n.node))
      twoMember(d) == IF d.err # NoErr THEN R(d.err, Null)
                      ELSE IF d.kind = NodeKind.EXTENSION_NODE
                      THEN union(NodeKind.EXTENSION_NODE, unpackExtensionNode(d.fields, codec))
                      ELSE union(NodeKind.LEAF_NODE, unpackLeafNode(d.fields, codec))
      node(nodeFields) ==
        IF Len(nodeFields) = 2 THEN twoMember(decodeTwoMemberNode(nodeFields))
        ELSE IF Len(nodeFields) = 17
        THEN union(NodeKind.BRANCH_NODE, unpackBranchNode(nodeFields, codec))
        ELSE R(NoErr, MapNode([key \in {} |-> Null]))
      decoded(r) == IF ~r.ok THEN R("rlp: invalid input", Null)
                    ELSE IF r.item.t # "l"
                    THEN R("rlp: expected input list for []interface {}", Null)
                    ELSE node(r.item.e)
  IN decoded(RlpDecodeBytes(src))

(***************************************************************************)
(* Trie nodes, encode: the trie encoder (package trie).  A packed node is  *)
(* the sequence of RLP items handed to rlp.Encode: a []byte is a string.   *)
(***************************************************************************)
\* NodeAndKind: the union member of a trie node, tried as leaf, branch, extension
NodeAndKind(node) ==
  IF HasKey(node, NodeKind.LEAF_NODE) THEN [err |-> NoErr, node |-> node.m[NodeKind.LEAF_NODE], kind |-> NodeKind.LEAF_NODE]
  ELSE IF HasKey(node, NodeKind.BRANCH_NODE)
  THEN [err |-> NoErr, node |-> node.m[NodeKind.BRANCH_NODE], kind |-> NodeKind.BRANCH_NODE]
  ELSE IF HasKey(node, NodeKind.EXTENSION_NODE)
  THEN [err |-> NoErr, node |-> node.m[NodeKind.EXTENSION_NODE], kind |-> NodeKind.EXTENSION_NODE]
  ELSE [err |-> "eth trie node IPLD node is missing the expected keyed Union keys",
        node |-> Null, kind |-> ""]

\* ValueAndKind: the union member of a value, tried as transaction, receipt, account, bytes
ValueAndKind(node) ==
  IF HasKey(node, NodeKind.TX_VALUE) THEN [err |-> NoErr, node |-> node.m[NodeKind.TX_VALUE], kind |-> NodeKind.TX_VALUE]
  ELSE IF HasKey(node, NodeKind.RCT_VALUE)
  THEN [err |-> NoErr, node |-> node.m[NodeKind.RCT_VALUE], kind |-> NodeKind.RCT_VALUE]
  ELSE IF HasKey(node, NodeKind.STATE_VALUE)
  THEN [err |-> NoErr, node |-> node.m[NodeKind.STATE_VALUE], kind |-> NodeKind.STATE_VALUE]
  ELSE IF HasKey(node, NodeKind.STORAGE_VALUE)
  THEN [err |-> NoErr, node |-> node.m[NodeKind.STORAGE_VALUE], kind |-> NodeKind.STORAGE_VALUE]
  ELSE [err |-> "eth trie value IPLD node is missing the expected keyed Union keys",
        node |-> Null, kind |-> ""]

\* packValue: the value bytes of a leaf or branch, empty for a null Value
packValue(node) ==
  LET valUnionNode == LookupByString(node, "Value") IN
    IF valUnionNode.err # NoErr THEN V(valUnionNode.err, <<>>)
    ELSE IF IsNull(valUnionNode.val) THEN V(NoErr, <<>>)
    ELSE LET vk == ValueAndKind(valUnionNode.val) IN
      IF vk.err # NoErr THEN V(vk.err, <<>>)
      ELSE IF vk.kind = NodeKind.TX_VALUE THEN tx_Encode(vk.node)
      ELSE IF vk.kind = NodeKind.RCT_VALUE THEN rct_Encode(vk.node)
      ELSE IF vk.kind = NodeKind.STATE_VALUE THEN account_Encode(vk.node)
      ELSE IF vk.kind = NodeKind.STORAGE_VALUE
      THEN (IF vk.node.k = "bytes" THEN V(NoErr, vk.node.v) ELSE V("wrong kind", <<>>))
      ELSE IF vk.kind = NodeKind.LOG_VALUE THEN log_Encode(vk.node)
      ELSE V("eth trie value of unexpected kind", <<>>)

packLeafNode(node) ==
  LET pp == LookupBytes(node, "PartialPath")
      leaf(valueBytes) ==
        IF pp.err # NoErr THEN V(pp.err, <<>>)
        ELSE IF valueBytes.err # NoErr THEN V(valueBytes.err, <<>>)
        ELSE V(NoErr, <<RStr(HexToCompact(pp.val)), RStr(valueBytes.val)>>)
  IN leaf(packValue(node))

packExtensionNode(node) ==
  LET pp == LookupBytes(node, "PartialPath")
      child == LookupLink(node, "Child")
  IN IF pp.err # NoErr THEN V(pp.err, <<>>)
     ELSE IF child.err # NoErr THEN V(child.err, <<>>)
     ELSE V(NoErr, <<RStr(HexToCompact(pp.val)), RStr(DecodedDigest(child.val))>>)

\* one pass of the loop of packBranchNode: the field stored for the child under key
packBranchChild(node, key) ==
  LET childNode == LookupByString(node, key)
      link(l) == IF l.err # NoErr THEN V(l.err, RStr(<<>>))
                 ELSE V(NoErr, RStr(DecodedDigest(l.val)))
      inline(childLeafNodeFields) ==
        IF childLeafNodeFields.err # NoErr THEN V(childLeafNodeFields.err, RStr(<<>>))
        ELSE V(NoErr, RStr(RlpEncode(RList(childLeafNodeFields.val))))
      trieNode(childLeafNode) ==
        IF childLeafNode.err # NoErr
        THEN V("only leaf nodes can be less than 32 bytes and stored direclty in a parent node",
               RStr(<<>>))
        ELSE inline(packLeafNode(childLeafNode.val))
  IN IF childNode.err # NoErr THEN V(childNode.err, RStr(<<>>))
     ELSE IF IsNull(childNode.val) THEN V(NoErr, RStr(<<>>))
     ELSE IF HasKey(childNode.val, "Link") THEN link(LookupLink(childNode.val, "Link"))
     ELSE IF HasKey(childNode.val, "TrieNode")
     THEN trieNode(LookupByString(childNode.val.m["TrieNode"], NodeKind.LEAF_NODE))
     ELSE V("branch node child needs to be of kind bytes, link, or null", RStr(<<>>))

packBranchNode(node) ==
  LET branch(fields) ==
        IF FirstErr(fields) # NoErr THEN V(FirstErr(fields), <<>>)
        ELSE V(NoErr, [i \in 1..17 |-> IF i = 17 THEN RStr(fields[17].val) ELSE fields[i].val])
  IN branch([i \in 1..17 |-> IF i = 17 THEN packValue(node)
                             ELSE packBranchChild(node, ChildKey[i])])

\* trie.AppendEncode(enc, inNode): nil on error
trie_AppendEncode(enc, inNode) ==
  LET nk == NodeAndKind(inNode)
      encoded(nodeFields) == IF nodeFields.err # NoErr THEN V(nodeFields.err, <<>>)
                             ELSE V(NoErr, enc \o RlpEncode(RList(nodeFields.val)))
  IN IF inNode.k # "map" THEN V("wrong kind", <<>>)
     ELSE IF nk.err # NoErr THEN V(nk.err, <<>>)
     ELSE IF nk.kind = NodeKind.BRANCH_NODE THEN encoded(packBranchNode(nk.node))
     ELSE IF nk.kind = NodeKind.EXTENSION_NODE THEN encoded(packExtensionNode(nk.node))
     ELSE encoded(packLeafNode(nk.node))

\* trie.Encode(node, w): val is what was written to w
trie_Encode(node) ==
  LET write(e) == IF e.err # NoErr THEN V(e.err, <<>>) ELSE V(NoErr, e.val)
  IN write(trie_AppendEncode(<<>>, node))

(***************************************************************************)
(* The sample inputs.                                                      *)
(***************************************************************************)
\* the sample transactions: every variant, with and without recipient, data and
\* access list entries, with one-byte and two-byte quantities
Quantities == (0..MaxQuantity) \cup {258}
SampleAddress == Fill(AddressLength, 185)
SampleHash == Fill(HashLength, 17)
SampleTxs ==
  {[ZeroTx EXCEPT !.Type = ty, !.ChainID = 1, !.Nonce = q, !.GasPrice = q + 1,
      !.GasTipCap = 1, !.GasFeeCap = q + 2, !.Gas = 2000, !.To = to, !.Value = 10,
      !.Data = d, !.AccessList = IF ty = LegacyTxType THEN <<>> ELSE al,
      !.V = 1, !.R = 300, !.S = 77] :
     ty \in {LegacyTxType, AccessListTxType, DynamicFeeTxType}, q \in Quantities,
     to \in {<<>>, SampleAddress}, d \in {<<>>, <<85, 68>>},
     al \in {<<>>, <<[Address |-> SampleAddress, StorageKeys |-> <<SampleHash>>],
                      [Address |-> SampleAddress, StorageKeys |-> <<>>]>>}}

\* Transaction nodes as a caller may build them: the fields of a sample transaction
\* with both fee caps present, under any type tag and recipient, the nonce in 8
\* bytes or in one
TxNodes ==
  {MapNode([RequiredUnpackFuncs(tx) EXCEPT
              !.TxType = Bytes(<<ty>>), !.Recipient = rcpt,
              !.AccountNonce = IF short THEN Bytes(<<1>>) ELSE @]
           @@ [GasTipCap |-> Bytes(BigBytes(tx.GasTipCap)),
               GasFeeCap |-> Bytes(BigBytes(tx.GasFeeCap))]) :
     tx \in SampleTxs, ty \in {LegacyTxType, AccessListTxType, DynamicFeeTxType, 3},
     rcpt \in {Null, Bytes(SampleAddress)}, short \in BOOLEAN}

\* the content domains DecodeTrieNodeBytes knows, and one codec it does not
Domains == {EthTxTrie, EthTxReceiptTrie, EthStateTrie, EthStorageTrie, logTrieMulticodec}

SampleLogs ==
  {[Address |-> SampleAddress, Topics |-> <<SampleHash>>, Data |-> <<1, 0, 255>>],
   [Address |-> SampleAddress, Topics |-> <<>>, Data |-> <<>>]}
SampleReceipts ==
  {[ZeroReceipt EXCEPT !.Type = LegacyTxType, !.Status = ReceiptStatusSuccessful,
      !.CumulativeGasUsed = 1,
      !.Logs = <<[Address |-> SampleAddress, Topics |-> <<SampleHash>>, Data |-> <<1, 0, 255>>]>>],
   [ZeroReceipt EXCEPT !.Type = AccessListTxType, !.PostState = SampleHash,
      !.CumulativeGasUsed = 258],
   [ZeroReceipt EXCEPT !.Type = DynamicFeeTxType, !.Status = ReceiptStatusFailed]}
SampleAccounts ==
  {[Nonce |-> q, Balance |-> 1000, Root |-> Fill(HashLength, 86),
    CodeHash |-> Fill(HashLength, 197)] : q \in Quantities}

\* the consensus encodings of the values of each domain
Values(codec) ==
  IF codec = EthTxTrie
  THEN {MarshalBinary(tx) : tx \in {t \in SampleTxs : t.Nonce = 0 /\ t.To # <<>>
                                       /\ t.Data = <<>> /\ t.AccessList = <<>>}}
  ELSE IF codec = EthTxReceiptTrie THEN {rct_MarshalBinary(r) : r \in SampleReceipts}
  ELSE IF codec = EthStateTrie THEN {RlpEncode(AccountItem(a)) : a \in SampleAccounts}
  ELSE IF codec = EthStorageTrie THEN {<<5>>, RlpEncode(RStr(<<1, 2>>))}
  ELSE IF codec = logTrieMulticodec THEN {RlpEncode(LogItem(l)) : l \in SampleLogs}
  ELSE {}

LeafItem(path, value) == RList(<<RStr(path), RStr(value)>>)
ExtensionItem(path, child) == RList(<<RStr(path), child>>)
\* compact paths: leaves carry flag 2 or 3, extensions flag 0 or 1
SamplePaths ==
  [Leaf |-> {HexToCompact(<<10, 16>>), HexToCompact(<<1, 15, 16>>), HexToCompact(<<16>>)},
   Extension |-> {HexToCompact(<<12>>), HexToCompact(<<10, 11>>)}]

\* the digest kept in slot i of a sample branch, different for every slot
SlotDigest(i) == Fill(HashLength, 16 + i)
\* a branch with references in the slots of P and value bytes in the 17th member
RefBranch(P, value) ==
  RList([i \in 1..17 |->
           IF i = 17 THEN RStr(value)
           ELSE IF i \in P THEN RStr(SlotDigest(i)) ELSE RStr(<<>>)])
WithSlot(item, k, x) == RList([item.e EXCEPT ![k] = x])

\* the nodes a trie of the domain holds: branches of references, with a value, with
\* a leaf short enough to sit inline; leaves; extensions
CanonicalItems(codec) ==
  IF codec \in Domains
  THEN {RefBranch(P, <<>>) : P \in {{}, {1, 6, 15}, 1..16} \cup {{i} : i \in 1..16}}
         \cup {RefBranch({1, 6, 15}, v) : v \in Values(codec)}
         \cup {WithSlot(RefBranch({1, 6, 15}, <<>>), 9, LeafItem(p, v)) :
                 p \in {lp \in SamplePaths.Leaf : Len(lp) = 1},
                 v \in {lv \in Values(codec) :
                          Len(RlpEncode(LeafItem(<<58>>, lv))) < HashLength}}
         \cup {LeafItem(p, v) : p \in SamplePaths.Leaf, v \in Values(codec)}
         \cup {ExtensionItem(p, RStr(SampleHash)) : p \in SamplePaths.Extension}
  ELSE {}

\* lists of every length up to MaxListLen, two-member lists of every prefix, children
\* and values of every shape
MalformedItems ==
  {RList([i \in 1..n |-> RStr(<<>>)]) : n \in 0..MaxListLen}
    \cup {WithSlot(RefBranch({1}, <<>>), k, bad) :
            k \in {2, 16},
            bad \in {RStr(<<5>>), RStr(Fill(31, 7)), RStr(Fill(33, 7)),
                     ExtensionItem(HexToCompact(<<12>>), RStr(SampleHash)),
                     RList(<<>>), RList(<<RStr(<<58>>), RStr(<<5>>), RStr(<<5>>)>>),
                     LeafItem(<<64>>, <<5>>), LeafItem(<<>>, <<5>>),
                     RList(<<RList(<<>>), RStr(<<5>>)>>),
                     RList(<<RStr(<<58>>), RList(<<>>)>>),
                     RefBranch({}, <<>>)}}
    \cup {WithSlot(RefBranch({}, <<>>), 17, RList(<<>>))}
    \cup {WithSlot(RefBranch({1, 6, 15}, <<>>), 9, LeafItem(<<58>>, v)) :
            v \in UNION {Values(codec) : codec \in Domains}
                    \cup {RlpEncode(LeafItem(<<58>>, <<5>>))}}
    \cup {ExtensionItem(p, c) :
            p \in SamplePaths.Extension,
            c \in {RStr(<<>>), RStr(Fill(31, 7)), RStr(Fill(33, 7)), RList(<<>>),
                   LeafItem(<<58>>, <<5>>)}}
    \cup {LeafItem(p, <<5>>) : p \in {<<64>>, <<241>>, <<128, 1>>, <<>>}}
    \cup {RList(<<RList(<<>>), RStr(<<5>>)>>), RList(<<RStr(<<58>>), RList(<<>>)>>),
          RStr(<<1, 2>>)}

TrieItems == UNION {CanonicalItems(codec) : codec \in Domains} \cup MalformedItems

(***************************************************************************)
(* The state machine: each action is one call of an entry point; orig      *)
(* keeps the input a round trip started from.                              *)
(***************************************************************************)
Nothing == [none |-> TRUE]

Init ==
  /\ op = "init"
  /\ orig = Nothing
  /\ arg = Nothing
  /\ res = Nothing

\* shared.HexToCompact(hex)
CallHexToCompact ==
  \E hex \in HexKeys :
    /\ op = "init"
    /\ op' = "HexToCompact"
    /\ orig' = hex
    /\ arg' = hex
    /\ res' = HexToCompact(hex)

\* shared.CompactToHex on the bytes HexToCompact returned
CallCompactToHex ==
  /\ op = "HexToCompact"
  /\ op' = "CompactToHex"
  /\ arg' = res
  /\ res' = CompactToHex(res)
  /\ UNCHANGED orig

\* shared.HexToCompact on the nibbles shared.CompactToHex returns for the compact
\* path c, as packLeafNode and packExtensionNode do with a decoded path; c has one
\* or two bytes and any flag byte, well-formed or not
CallHexToCompactOfCompactToHex ==
  \E flag \in {0, 5, 16, 26, 32, 37, 48, 63, 64, 241}, rest \in {<<>>, <<0>>, <<31>>, <<154>>} :
    \E hex \in {CompactToHex(<<flag>> \o rest)} :
      /\ op = "init"
      /\ op' = "HexToCompact.CompactToHex"
      /\ orig' = <<flag>> \o rest
      /\ arg' = hex
      /\ res' = HexToCompact(hex)

\* tx.DecodeBytes(na, src) on the consensus encoding of a transaction, as it is
\* (lead 0) or behind a leading byte that is no transaction type
CallTxDecode ==
  \E tx \in SampleTxs, lead \in {0, 3, 127} :
    \E src \in {LET envelope(b) == IF lead = 0 THEN b
                                   ELSE IF tx.Type = LegacyTxType THEN <<lead>> \o b
                                   ELSE <<lead>> \o Tail(b)
                 IN envelope(MarshalBinary(tx))} :
      /\ op = "init"
      /\ op' = "tx.Decode"
      /\ orig' = src
      /\ arg' = src
      /\ res' = tx_DecodeBytes(src)

\* tx.Encode(node, w) on the node the decode built
CallTxEncode ==
  /\ op = "tx.Decode"
  /\ res.err = NoErr
  /\ op' = "tx.Encode"
  /\ arg' = res.node
  /\ res' = tx_Encode(res.node)
  /\ UNCHANGED orig

\* tx.Encode(node, w) on a Transaction node built by hand
CallTxEncodeNode ==
  \E node \in TxNodes :
    /\ op = "init"
    /\ op' = "tx.EncodeNode"
    /\ orig' = Nothing
    /\ arg' = node
    /\ res' = tx_Encode(node)

\* tx.AppendEncode(enc, node) with a buffer that already holds a byte of the caller
CallTxAppendEncode ==
  \E node \in TxNodes :
    /\ op = "init"
    /\ op' = "tx.AppendEncode"
    /\ orig' = <<170>>
    /\ arg' = node
    /\ res' = tx_AppendEncode(<<170>>, node)

\* trie.DecodeTrieNodeBytes(na, src, codec) on the encoding of a sample item
CallDecodeTrieNode ==
  \E item \in TrieItems, codec \in Domains \cup {EthBlock} :
    \E src \in {RlpEncode(item)} :
      /\ op = "init"
      /\ op' = "trie.Decode"
      /\ orig' = [item |-> item, src |-> src, codec |-> codec,
                  canon |-> item \in CanonicalItems(codec)]
      /\ arg' = src
      /\ res' = DecodeTrieNodeBytes(src, codec)

\* trie.Encode(node, w) on the node the decode built
CallTrieEncode ==
  /\ op = "trie.Decode"
  /\ res.err = NoErr
  /\ op' = "trie.Encode"
  /\ arg' = res.node
  /\ res' = trie_Encode(res.node)
  /\ UNCHANGED orig

\* trie.DecodeTrieNodeBytes(na, src, codec) on the bytes Encode wrote for the node
\* in arg, under the domain the node came from
CallDecodeEncoded ==
  /\ op = "trie.Encode"
  /\ res.err = NoErr
  /\ op' = "trie.DecodeEncoded"
  /\ res' = DecodeTrieNodeBytes(res.val, orig.codec)
  /\ UNCHANGED <<orig, arg>>

\* trie.Encode(node, w) on a leaf whose Value is one member of the Value union:
\* the node each entity decoder builds from a sample, bytes as they are, and a Log
\* node of the schema
CallTrieEncodeValue ==
  \E value \in {Keyed(NodeKind.TX_VALUE, tx_DecodeBytes(b).node) : b \in Values(EthTxTrie)}
               \cup {Keyed(NodeKind.RCT_VALUE, rct_DecodeBytes(b).node) :
                       b \in Values(EthTxReceiptTrie)}
               \cup {Keyed(NodeKind.STATE_VALUE, account_DecodeBytes(b).node) :
                       b \in Values(EthStateTrie)}
               \cup {Keyed(NodeKind.STORAGE_VALUE, Bytes(b)) : b \in Values(EthStorageTrie)}
               \cup {Keyed(NodeKind.LOG_VALUE, unpackLog(l)) : l \in SampleLogs} :
    \E node \in {Keyed(NodeKind.LEAF_NODE,
                        MapNode([PartialPath |-> Bytes(<<10, 16>>), Value |-> value]))} :
      /\ op = "init"
      /\ op' = "trie.EncodeValue"
      /\ orig' = value
      /\ arg' = node
      /\ res' = trie_Encode(node)

\* rct.DecodeBytes(na, src) on a receipt envelope of type ty; the status slot
\* holds one of the three consensus forms, a single byte other than 0x01 or a
\* string of another length
CallRctDecode ==
  \E ty \in {LegacyTxType, AccessListTxType, DynamicFeeTxType},
     slot \in {<<>>, <<1>>, SampleHash, <<0>>, <<2>>, <<1, 0>>,
               Fill(HashLength - 1, 17), Fill(HashLength + 1, 17)},
     cgu \in Quantities, logs \in {<<>>} \cup {<<l>> : l \in SampleLogs} :
    \E src \in {(IF ty = LegacyTxType THEN <<>> ELSE <<ty>>)
                  \o RlpEncode(ReceiptItem(slot, cgu, Fill(BloomByteLength, 0), logs))} :
      /\ op = "init"
      /\ op' = "rct.Decode"
      /\ orig' = [src |-> src, type |-> ty, slot |-> slot, cgu |-> cgu]
      /\ arg' = src
      /\ res' = rct_DecodeBytes(src)

\* rct.Encode(node, w) on the node the decode built
CallRctEncode ==
  /\ op = "rct.Decode"
  /\ res.err = NoErr
  /\ op' = "rct.Encode"
  /\ arg' = res.node
  /\ res' = rct_Encode(res.node)
  /\ UNCHANGED orig

\* uncles.DecodeBytes(na, src) on the RLP list of up to two uncle headers
CallUnclesDecode ==
  \E n \in 0..2, t \in Quantities :
    \E src \in {RlpEncode(RList([i \in 1..n |->
                  HeaderItem([ParentHash |-> Fill(HashLength, 200 + i),
                              UncleHash |-> Fill(HashLength, 29),
                              Coinbase |-> SampleAddress,
                              Root |-> Fill(HashLength, 1), TxHash |-> Fill(HashLength, 2),
                              ReceiptHash |-> Fill(HashLength, 3),
                              Bloom |-> Fill(BloomByteLength, 0),
                              Difficulty |-> 5000, Number |-> 1224 + i,
                              GasLimit |-> 1000, GasUsed |-> t, Time |-> 1337 + i,
                              Extra |-> <<1, 2, 3>>, MixDigest |-> SampleHash,
                              Nonce |-> Fill(8, 0)])]))} :
      /\ op = "init"
      /\ op' = "uncles.Decode"
      /\ orig' = [src |-> src, count |-> n]
      /\ arg' = src
      /\ res' = uncles_DecodeBytes(src)

\* uncles.Encode(node, w) on the node the decode built
CallUnclesEncode ==
  /\ op = "uncles.Decode"
  /\ res.err = NoErr
  /\ op' = "uncles.Encode"
  /\ arg' = res.node
  /\ res' = uncles_Encode(res.node)
  /\ UNCHANGED orig

\* account.DecodeBytes(na, src) on the encoding of a sample account, with a code
\* hash of its own and with the code hash equal to the storage root
CallAccountDecode ==
  \E a \in SampleAccounts, ch \in {Fill(HashLength, 197), Fill(HashLength, 86)} :
    \E src \in {RlpEncode(AccountItem([a EXCEPT !.CodeHash = ch]))} :
      /\ op = "init"
      /\ op' = "account.Decode"
      /\ orig' = [src |-> src, account |-> [a EXCEPT !.CodeHash = ch]]
      /\ arg' = src
      /\ res' = account_DecodeBytes(src)

\* account.Encode(node, w) on the node the decode built
CallAccountEncode ==
  /\ op = "account.Decode"
  /\ res.err = NoErr
  /\ op' = "account.Encode"
  /\ arg' = res.node
  /\ res' = account_Encode(res.node)
  /\ UNCHANGED orig

\* the caller drops the result; the codec keeps no state between calls
Return ==
  /\ op \notin {"init"}
  /\ op' = "init"
  /\ orig' = Nothing
  /\ arg' = Nothing
  /\ res' = Nothing

Next ==
  \/ CallHexToCompact
  \/ CallCompactToHex
  \/ CallHexToCompactOfCompactToHex
  \/ CallTxDecode
  \/ CallTxEncode
  \/ CallDecodeTrieNode
  \/ CallTrieEncode
  \/ CallDecodeEncoded
  \/ CallTrieEncodeValue
  \/ CallTxEncodeNode
  \/ CallTxAppendEncode
  \/ CallRctDecode
  \/ CallRctEncode
  \/ CallUnclesDecode
  \/ CallUnclesEncode
  \/ CallAccountDecode
  \/ CallAccountEncode
  \/ Return

Spec == Init /\ [][Next]_vars

(***************************************************************************)
(* Properties.                                                             *)
(***************************************************************************)
\* C1: for every content domain and every node shape, decoding the consensus
\* encoding of a trie node of that domain succeeds and encoding the decoded node
\* gives the same bytes back.
C1_TrieRoundTrip ==
  /\ (op = "trie.Decode" /\ orig.canon) => res.err = NoErr
  /\ (op = "trie.Encode" /\ orig.canon) => (res.err = NoErr /\ res.val = orig.src)

\* C2: for every nibble sequence whose only terminator is its last element,
\* CompactToHex(HexToCompact(n)) = n, the empty sequence and the lone
\* terminator included.
C2_CompactInverse == op = "CompactToHex" => res = orig
C2_Witness == op = "CompactToHex" /\ orig = <<16>> /\ res = <<16>>

\* C3: a two-member list whose member 0 is a non-empty byte string is classified
\* by the top nibble of that string's first byte alone: 0 or 1 is an extension,
\* 2 or 3 is a leaf, 4..15 is rejected with the unknown-prefix error.
C3_TwoMemberClassification ==
  LET twoMember == /\ orig.item.t = "l" /\ Len(orig.item.e) = 2
                   /\ orig.item.e[1].t = "s" /\ Len(orig.item.e[1].b) > 0
      nibble == orig.item.e[1].b[1] \div 16
  IN (op = "trie.Decode" /\ twoMember) =>
       /\ nibble \in {0, 1} =>
            /\ res.err # "unknown hex prefix"
            /\ res.err = NoErr => DOMAIN res.node.m = {NodeKind.EXTENSION_NODE}
       /\ nibble \in {2, 3} =>
            /\ res.err # "unknown hex prefix"
            /\ res.err = NoErr => DOMAIN res.node.m = {NodeKind.LEAF_NODE}
       /\ nibble \in 4..15 => res.err = "unknown hex prefix"
C3_Witness ==
  /\ op = "trie.Decode"
  /\ orig.item = LeafItem(<<58>>, <<5>>)
  /\ orig.codec = EthStorageTrie
  /\ res.err = NoErr
  /\ DOMAIN res.node.m = {NodeKind.LEAF_NODE}

\* C4: decoding a well-formed list of neither 2 nor 17 members fails with an error.
C4_UnexpectedShape ==
  (op = "trie.Decode" /\ orig.item.t = "l" /\ Len(orig.item.e) \notin {2, 17})
    => res.err # NoErr

\* C5: decoding a 17-member list fails with an error whenever one of the slots
\* 0..15 is non-empty, is not a 32-byte string and is not a two-member list that
\* classifies as a leaf; a successfully decoded branch has only leaves inline.
C5_InvalidInlineChild ==
  LET isLeafList(x) == /\ x.t = "l" /\ Len(x.e) = 2
                       /\ x.e[1].t = "s" /\ Len(x.e[1].b) > 0
                       /\ x.e[1].b[1] \div 16 \in {2, 3}
      bad(x) == /\ ~(x.t = "s" /\ Len(x.b) \in {0, HashLength})
                /\ ~isLeafList(x)
      branch == orig.item.t = "l" /\ Len(orig.item.e) = 17
      panics == {"panic: interface conversion", "panic: index out of range"}
  IN (op = "trie.Decode" /\ branch) =>
       /\ (\E i \in 1..16 : bad(orig.item.e[i])) => (res.err # NoErr /\ res.err \notin panics)
       /\ res.err = NoErr =>
            \A i \in 1..16 :
              LET child == res.node.m[NodeKind.BRANCH_NODE].m[ChildKey[i]] IN
                HasKey(child, "TrieNode") => DOMAIN child.m["TrieNode"].m = {NodeKind.LEAF_NODE}

\* C6: a two-member list classified as an extension decodes successfully only if
\* member 1 is a byte string of exactly 32 bytes.
C6_InvalidExtensionChild ==
  LET extension == /\ orig.item.t = "l" /\ Len(orig.item.e) = 2
                   /\ orig.item.e[1].t = "s" /\ Len(orig.item.e[1].b) > 0
                   /\ orig.item.e[1].b[1] \div 16 \in {0, 1}
  IN (op = "trie.Decode" /\ extension /\ res.err = NoErr)
       => (orig.item.e[2].t = "s" /\ Len(orig.item.e[2].b) = HashLength)

\* C7: in a decoded branch the child at position i comes from slot i alone: an
\* empty string gives a null child, a 32-byte string gives a reference with those
\* 32 bytes as digest and the caller's codec as tag.
C7_BranchSlots ==
  (op = "trie.Decode" /\ orig.item.t = "l" /\ Len(orig.item.e) = 17 /\ res.err = NoErr) =>
    \A i \in 1..16 :
      LET slot == orig.item.e[i]
          child == res.node.m[NodeKind.BRANCH_NODE].m[ChildKey[i]]
      IN /\ (slot.t = "s" /\ Len(slot.b) = 0) => IsNull(child)
         /\ (slot.t = "s" /\ Len(slot.b) = HashLength) =>
              /\ DOMAIN child.m = {"Link"}
              /\ child.m["Link"].k = "link"
              /\ child.m["Link"].digest = slot.b
              /\ child.m["Link"].codec = orig.codec
C7_Witness ==
  /\ op = "trie.Decode"
  /\ orig.item = RefBranch({1, 6, 15}, <<>>)
  /\ orig.codec = EthTxTrie
  /\ res.err = NoErr
  /\ res.node.m[NodeKind.BRANCH_NODE].m["Child5"].m["Link"].digest = SlotDigest(6)
  /\ IsNull(res.node.m[NodeKind.BRANCH_NODE].m["Child4"])

\* C8: the transcoder of a node's value is chosen by the caller's codec alone: a
\* decoded value is the union member of that codec whatever the bytes are, an
\* empty 17th member gives no value, and an unsupported codec fails as soon as
\* value bytes are to be decoded.
C8_ValueByCodec ==
  LET kindOf(codec) == CASE codec = EthTxTrie -> "Transaction"
                         [] codec = EthTxReceiptTrie -> "Receipt"
                         [] codec = EthStateTrie -> "Account"
                         [] codec = EthStorageTrie -> "Bytes"
                         [] codec = logTrieMulticodec -> "Log"
                         [] OTHER -> "none"
      isList(n) == orig.item.t = "l" /\ Len(orig.item.e) = n
      leaf == /\ isList(2) /\ orig.item.e[1].t = "s" /\ Len(orig.item.e[1].b) > 0
              /\ orig.item.e[1].b[1] \div 16 \in {2, 3}
      hasValue == isList(17) /\ orig.item.e[17] # RStr(<<>>)
  IN op = "trie.Decode" =>
       /\ (leaf /\ res.err = NoErr) =>
            DOMAIN res.node.m[NodeKind.LEAF_NODE].m["Value"].m = {kindOf(orig.codec)}
       /\ (hasValue /\ res.err = NoErr) =>
            DOMAIN res.node.m[NodeKind.BRANCH_NODE].m["Value"].m = {kindOf(orig.codec)}
       /\ (isList(17) /\ ~hasValue /\ res.err = NoErr) =>
            IsNull(res.node.m[NodeKind.BRANCH_NODE].m["Value"])
       /\ ((leaf \/ hasValue) /\ orig.codec \notin Domains) => res.err # NoErr
C8_Witness ==
  /\ op = "trie.Decode"
  /\ orig.codec = EthStorageTrie
  /\ \E v \in Values(EthTxTrie) : orig.item = LeafItem(<<58>>, v)
  /\ res.err = NoErr
  /\ DOMAIN res.node.m[NodeKind.LEAF_NODE].m["Value"].m = {"Bytes"}

\* C9: a branch decoded from a list with a nested leaf list encodes with that
\* leaf's two-member list directly in the slot, not wrapped in a byte string.
C9_InlineLeafNotWrapped ==
  (op = "trie.Encode" /\ orig.item.t = "l" /\ Len(orig.item.e) = 17 /\ res.err = NoErr) =>
    \A i \in 1..16 :
      orig.item.e[i].t = "l" =>
        /\ RlpDecodeBytes(res.val).ok
        /\ RlpDecodeBytes(res.val).item.e[i] = orig.item.e[i]

\* C10: decoding the consensus encoding of a transaction of any of the three
\* variants succeeds and encoding the decoded node gives the bytes back.
C10_TxRoundTrip ==
  /\ (op = "tx.Decode" /\ (orig[1] > 127 \/ orig[1] \in {AccessListTxType, DynamicFeeTxType}))
       => res.err = NoErr
  /\ op = "tx.Encode" => res.err = NoErr /\ res.val = orig

\* C11: for each receipt variant, decoding the consensus encoding of a receipt
\* succeeds and encoding the decoded node succeeds and gives the same bytes back.
C11_RctRoundTrip ==
  LET canonical == orig.slot \in {<<>>, <<1>>, SampleHash} IN
    /\ (op = "rct.Decode" /\ canonical) => res.err = NoErr
    /\ (op = "rct.Encode" /\ canonical) => (res.err = NoErr /\ res.val = orig.src)

\* C12: every decoded receipt has exactly one of Status and PostState non-null;
\* PostState is the non-null one exactly when the status slot held a 32-byte root.
C12_StatusXorPostState ==
  (op = "rct.Decode" /\ res.err = NoErr) =>
    /\ IsNull(res.node.m.PostState) # IsNull(res.node.m.Status)
    /\ ~IsNull(res.node.m.PostState) <=> Len(orig.slot) = HashLength

\* a receipt with a post-state root has been decoded
C12_Witness ==
  /\ op = "rct.Decode" /\ res.err = NoErr /\ orig.slot = SampleHash
  /\ res.node.m.PostState = Bytes(SampleHash) /\ IsNull(res.node.m.Status)

\* C13: receipt decode reads the status slot by its bytes: empty is the failed
\* status 0, the single byte 0x01 the successful status 1, 32 bytes the post-state
\* root; a single byte other than 0x01 or any other length fails with an error.
C13_StatusSlotPattern ==
  op = "rct.Decode" =>
    IF orig.slot = <<>>
    THEN /\ res.err = NoErr /\ IsNull(res.node.m.PostState)
         /\ ~IsNull(res.node.m.Status)
         /\ Uint64(res.node.m.Status.v) = ReceiptStatusFailed
    ELSE IF orig.slot = <<1>>
    THEN /\ res.err = NoErr /\ IsNull(res.node.m.PostState)
         /\ ~IsNull(res.node.m.Status)
         /\ Uint64(res.node.m.Status.v) = ReceiptStatusSuccessful
    ELSE IF Len(orig.slot) = HashLength
    THEN res.err = NoErr /\ res.node.m.PostState = Bytes(orig.slot)
    ELSE res.err # NoErr

\* a receipt whose status slot is a single byte other than 0x01 has been refused
C13_Witness ==
  /\ op = "rct.Decode" /\ orig.slot = <<2>> /\ orig.type = AccessListTxType
  /\ res.err # NoErr

\* C14: in every decoded transaction ChainID and AccessList are both null for the
\* Legacy variant and both non-null for AccessList and DynamicFee; an empty access
\* list is a non-null empty list.
C14_ChainIDAndAccessList ==
  (op = "tx.Decode" /\ res.err = NoErr) =>
    IF orig[1] > 127
    THEN IsNull(res.node.m.ChainID) /\ IsNull(res.node.m.AccessList)
    ELSE /\ res.node.m.ChainID.k = "bytes"
         /\ res.node.m.AccessList.k = "list"

\* an AccessList transaction without access-list entries has been decoded to a
\* non-null empty list
C14_Witness ==
  /\ op = "tx.Decode" /\ res.err = NoErr /\ orig[1] = AccessListTxType
  /\ \E tx \in SampleTxs : tx.AccessList = <<>> /\ MarshalBinary(tx) = orig
  /\ res.node.m.AccessList = ListNode(<<>>)

\* C15: in every decoded transaction GasPrice is non-null for Legacy and
\* AccessList and null for DynamicFee, and GasTipCap and GasFeeCap are non-null for
\* DynamicFee and null for the other two (a key the map lacks counts as null).
C15_GasFields ==
  (op = "tx.Decode" /\ res.err = NoErr) =>
    LET m == res.node.m
        nonNull(key) == key \in DOMAIN m /\ ~IsNull(m[key])
    IN IF orig[1] = DynamicFeeTxType
       THEN ~nonNull("GasPrice") /\ nonNull("GasTipCap") /\ nonNull("GasFeeCap")
       ELSE nonNull("GasPrice") /\ ~nonNull("GasTipCap") /\ ~nonNull("GasFeeCap")
\* C16: Recipient is null exactly for a contract creation: decode gives a null
\* Recipient exactly when the transaction has no destination and the 20-byte
\* destination otherwise; encode of a node with a null Recipient writes a
\* transaction without destination, and with a non-null Recipient one with that
\* destination.
C16_RecipientNullIffCreation ==
  /\ (op = "tx.Decode" /\ res.err = NoErr) =>
       \A tx \in SampleTxs :
         MarshalBinary(tx) = orig =>
           /\ IsNull(res.node.m.Recipient) <=> tx.To = <<>>
           /\ tx.To # <<>> => res.node.m.Recipient = Bytes(tx.To)
  /\ (op \in {"tx.Encode", "tx.EncodeNode"} /\ res.err = NoErr) =>
       LET written(d) ==
             /\ d.err = NoErr
             /\ d.tx.To = (IF IsNull(arg.m.Recipient) THEN <<>> ELSE arg.m.Recipient.v)
       IN written(UnmarshalBinary(res.val))

\* a DynamicFee node with a null Recipient has been encoded to a transaction
\* without destination
C16_Witness ==
  /\ op = "tx.EncodeNode" /\ res.err = NoErr
  /\ arg.m.TxType = Bytes(<<DynamicFeeTxType>>) /\ IsNull(arg.m.Recipient)
  /\ UnmarshalBinary(res.val).tx.To = <<>>
\* C17: in a decoded node the fixed-count fields AccountNonce, GasLimit,
\* CumulativeGasUsed and a non-null receipt Status are byte strings of exactly 8
\* bytes that hold the value big-endian, the value 0 included.
C17_FixedCountFields ==
  /\ (op = "tx.Decode" /\ res.err = NoErr) =>
       \A tx \in SampleTxs :
         MarshalBinary(tx) = orig =>
           /\ res.node.m.AccountNonce.k = "bytes"
           /\ Len(res.node.m.AccountNonce.v) = 8
           /\ SetBytes(res.node.m.AccountNonce.v) = tx.Nonce
           /\ res.node.m.GasLimit.k = "bytes"
           /\ Len(res.node.m.GasLimit.v) = 8
           /\ SetBytes(res.node.m.GasLimit.v) = tx.Gas
  /\ (op = "rct.Decode" /\ res.err = NoErr) =>
       /\ res.node.m.CumulativeGasUsed.k = "bytes"
       /\ Len(res.node.m.CumulativeGasUsed.v) = 8
       /\ SetBytes(res.node.m.CumulativeGasUsed.v) = orig.cgu
       /\ ~IsNull(res.node.m.Status) =>
            /\ Len(res.node.m.Status.v) = 8
            /\ SetBytes(res.node.m.Status.v) = (IF orig.slot = <<1>> THEN 1 ELSE 0)

\* a transaction with nonce 0 has been decoded to eight zero bytes
C17_Witness ==
  /\ op = "tx.Decode" /\ res.err = NoErr
  /\ \E tx \in SampleTxs : MarshalBinary(tx) = orig /\ tx.Nonce = 0
  /\ res.node.m.AccountNonce = Bytes(<<0, 0, 0, 0, 0, 0, 0, 0>>)
\* C18: decoding the encoding of a state account and encoding the node gives the
\* bytes back; the decoded CodeCID carries the code hash and the decoded
\* StorageRootCID the storage root, also when the two hashes differ.
C18_AccountRoundTrip ==
  /\ op = "account.Decode" =>
       /\ res.err = NoErr
       /\ res.node.m.StorageRootCID.digest = orig.account.Root
       /\ res.node.m.CodeCID.digest = orig.account.CodeHash
  /\ op = "account.Encode" => (res.err = NoErr /\ res.val = orig.src)

\* C19 as stated: account decode tags the storage root link as a state trie
\* reference and the code link as raw content.
C19_StateTrieTag ==
  (op = "account.Decode" /\ res.err = NoErr) =>
    /\ res.node.m.StorageRootCID.k = "link"
    /\ res.node.m.StorageRootCID.codec = EthStateTrie
    /\ res.node.m.CodeCID.k = "link"
    /\ res.node.m.CodeCID.codec = Raw

\* C19: account decode tags the storage root link as a storage trie reference
\* and the code link as raw content.
C19_StorageTrieTag ==
  (op = "account.Decode" /\ res.err = NoErr) =>
    /\ res.node.m.StorageRootCID.k = "link"
    /\ res.node.m.StorageRootCID.codec = EthStorageTrie
    /\ res.node.m.CodeCID.k = "link"
    /\ res.node.m.CodeCID.codec = Raw

\* an account has been decoded and its storage root link holds the storage root
C19_Witness ==
  /\ op = "account.Decode" /\ res.err = NoErr
  /\ res.node.m.StorageRootCID.digest = orig.account.Root
  /\ res.node.m.StorageRootCID.codec = EthStorageTrie
\* C20: a transaction whose type tag is none of 0, 1, 2 is refused: decode of
\* bytes behind an unrecognised leading type byte returns an error, and encode of
\* a node with an unrecognised TxType returns an error.
C20_UnknownTxType ==
  /\ (op = "tx.Decode" /\ orig[1] <= 127
        /\ orig[1] \notin {AccessListTxType, DynamicFeeTxType}) => res.err # NoErr
  /\ (op = "tx.EncodeNode"
        /\ arg.m.TxType.v \notin {<<LegacyTxType>>, <<AccessListTxType>>, <<DynamicFeeTxType>>})
       => res.err # NoErr

\* a node of an otherwise well-formed legacy transaction with TxType 3 has been
\* refused by the encoder
C20_Witness ==
  /\ op = "tx.EncodeNode" /\ arg.m.TxType = Bytes(<<3>>)
  /\ IsNull(arg.m.ChainID) /\ IsNull(arg.m.AccessList)
  /\ res.err = "unrecognized TxType"

\* C21: an encode that returns an error has written nothing: Encode of every
\* transcoder leaves the writer empty, and AppendEncode returns no byte beyond
\* those the caller passed in (no type byte, no part of the encoding).
C21_NoPartialOutput ==
  LET panics == {"panic: index out of range", "panic: interface conversion",
                 "panic: bloom bytes too big", "panic: makeslice: len out of range"}
      failed == res.err # NoErr /\ res.err \notin panics
  IN /\ (op \in {"tx.Encode", "tx.EncodeNode", "rct.Encode", "account.Encode", "trie.Encode"}
           /\ failed) => res.val = <<>>
     /\ (op = "tx.AppendEncode" /\ failed) => res.val \in {orig, <<>>}

\* AppendEncode of an AccessList node without ChainID has returned an error and
\* the caller's buffer as it was
C21_Witness ==
  /\ op = "tx.AppendEncode" /\ arg.m.TxType = Bytes(<<AccessListTxType>>)
  /\ IsNull(arg.m.ChainID)
  /\ res.err \notin {NoErr, "panic: index out of range"}
  /\ res.val = orig

\* C22: every decode and encode call either succeeds or returns an error value;
\* none of them panics, whatever bytes or schema-conforming node it is given (a
\* nonce of fewer than 8 bytes included).
C22_NeverPanics ==
  op \in {"tx.Decode", "tx.Encode", "tx.EncodeNode", "tx.AppendEncode", "rct.Decode",
          "rct.Encode", "account.Decode", "account.Encode", "trie.Decode", "trie.Encode"} =>
    res.err \notin {"panic: index out of range", "panic: interface conversion",
                    "panic: bloom bytes too big", "panic: makeslice: len out of range"}

\* C23: a well-formed trie node t (here: every node decoded from a canonical
\* encoding under its domain) encodes, and decoding the encoding under the same
\* domain gives t back: same variant, path, children and value.
C23_EncodeThenDecode ==
  /\ (op = "trie.Encode" /\ orig.canon) => res.err = NoErr
  /\ (op = "trie.DecodeEncoded" /\ orig.canon) => (res.err = NoErr /\ res.node = arg)

\* C24: decoding the RLP list of uncle headers succeeds and encoding the decoded
\* node writes exactly those bytes to the writer.
C24_UnclesRoundTrip ==
  /\ op = "uncles.Decode" => res.err = NoErr
  /\ op = "uncles.Encode" => (res.err = NoErr /\ res.val = orig.src)

\* C25: Encode accepts a leaf whose Value is any member of the Value union that
\* Decode emits: Transaction, Receipt, Account, Bytes or Log.
C25_EncodeAcceptsEveryValue ==
  op = "trie.EncodeValue" => res.err = NoErr

\* C26: decoding a two-member list, at top level or in a branch slot, whose member 0
\* is an empty byte string or a nested list returns an error and does not panic.
C26_NoFirstByte ==
  LET noFirstByte(x) == /\ x.t = "l" /\ Len(x.e) = 2
                        /\ (x.e[1].t = "l" \/ x.e[1].b = <<>>)
      inSlot == /\ orig.item.t = "l" /\ Len(orig.item.e) = 17
                /\ \E k \in 1..16 : noFirstByte(orig.item.e[k])
  IN (op = "trie.Decode" /\ (noFirstByte(orig.item) \/ inSlot)) =>
       /\ res.err # NoErr
       /\ res.err \notin {"panic: interface conversion", "panic: index out of range"}

\* C27: for a nibble sequence with k nibbles before the optional terminator,
\* HexToCompact returns k \div 2 + 1 bytes; byte 0 is 32 * terminator + 16 * odd +
\* the first nibble when k is odd, with a zero low nibble when k is even; the bytes
\* after it hold the remaining nibbles two per byte, high nibble first.
C27_CompactLayout ==
  LET term == IF Len(orig) > 0 /\ orig[Len(orig)] = 16 THEN 1 ELSE 0
      k == Len(orig) - term
      odd == k % 2
  IN op = "HexToCompact" =>
       /\ Len(res) = (k \div 2) + 1
       /\ res[1] = 32 * term + 16 * odd + (IF odd = 1 THEN orig[1] ELSE 0)
       /\ odd = 0 => res[1] % 16 = 0
       /\ \A j \in 1..(k \div 2) :
            res[1 + j] = 16 * orig[2 * j - 1 + odd] + orig[2 * j + odd]
C27_Witness ==
  op = "HexToCompact" /\ orig = <<1, 15, 9, 16>> /\ res = <<49, 249>>

\* C28: the PartialPath of every successfully decoded leaf, top level or inline in
\* a branch, ends with the terminator 16 and holds no other 16; the PartialPath of
\* every successfully decoded extension holds no 16; all other elements are
\* nibbles 0..15.
C28_TerminatorOnLeavesOnly ==
  LET nibbles(p) == \A i \in 1..Len(p) : p[i] \in 0..15
      leafPath(p) == /\ Len(p) > 0 /\ p[Len(p)] = 16
                     /\ nibbles(SubSeq(p, 1, Len(p) - 1))
      path(n, kind) == n.m[kind].m.PartialPath.v
      child(i) == res.node.m[NodeKind.BRANCH_NODE].m[ChildKey[i]]
  IN (op = "trie.Decode" /\ res.err = NoErr) =>
       /\ HasKey(res.node, NodeKind.LEAF_NODE) => leafPath(path(res.node, NodeKind.LEAF_NODE))
       /\ HasKey(res.node, NodeKind.EXTENSION_NODE) =>
            nibbles(path(res.node, NodeKind.EXTENSION_NODE))
       /\ HasKey(res.node, NodeKind.BRANCH_NODE) =>
            \A i \in 1..16 :
              HasKey(child(i), "TrieNode") =>
                leafPath(path(child(i).m["TrieNode"], NodeKind.LEAF_NODE))
C28_Witness ==
  /\ op = "trie.Decode" /\ res.err = NoErr
  /\ orig.item = LeafItem(HexToCompact(<<1, 15, 16>>), <<5>>)
  /\ res.node.m[NodeKind.LEAF_NODE].m.PartialPath.v = <<1, 15, 16>>

\* C29: for every compact path c of at least one byte whose flag nibble is in 0..3
\* and whose flag byte has a zero low nibble when the odd flag is clear,
\* HexToCompact(CompactToHex(c)) = c; the path bytes of a decoded leaf or extension
\* are the ones Encode writes.
C29_CompactRoundTrip ==
  LET canonical(c) == /\ Len(c) >= 1 /\ c[1] \div 16 \in 0..3
                      /\ (c[1] \div 16) % 2 = 0 => c[1] % 16 = 0
      twoMember == orig.item.t = "l" /\ Len(orig.item.e) = 2
  IN /\ (op = "HexToCompact.CompactToHex" /\ canonical(orig)) => res = orig
     /\ (op = "trie.Encode" /\ res.err = NoErr /\ twoMember /\ canonical(orig.item.e[1].b)) =>
          RlpDecodeBytes(res.val).item.e[1] = orig.item.e[1]
C29_Witness ==
  op = "HexToCompact.CompactToHex" /\ orig = <<63, 154>> /\ arg = <<15, 9, 10, 16>>
    /\ res = <<63, 154>>

\* C30: one Decode call decodes no trie node more than one level below the node it
\* was given: an inline child of a decoded branch is a leaf, and the Value of every
\* decoded leaf, inline or not, and of every branch is a member of the Value union
\* built by an entity decoder, never a trie node; a slot holding a list that itself
\* holds a list yields no node.
C30_InlineDepthOne ==
  LET valueKinds == {NodeKind.TX_VALUE, NodeKind.RCT_VALUE, NodeKind.STATE_VALUE,
                     NodeKind.STORAGE_VALUE, NodeKind.LOG_VALUE}
      entity(v) == IsNull(v) \/ (v.k = "map" /\ DOMAIN v.m \subseteq valueKinds)
      leaf(n) == /\ DOMAIN n.m = {NodeKind.LEAF_NODE}
                 /\ DOMAIN n.m[NodeKind.LEAF_NODE].m = {"PartialPath", "Value"}
                 /\ entity(n.m[NodeKind.LEAF_NODE].m.Value)
      branch == res.node.m[NodeKind.BRANCH_NODE]
      deeper(x) == x.t = "l" /\ \E j \in 1..Len(x.e) : x.e[j].t = "l"
  IN op = "trie.Decode" =>
       /\ (res.err = NoErr /\ HasKey(res.node, NodeKind.LEAF_NODE)) => leaf(res.node)
       /\ (res.err = NoErr /\ HasKey(res.node, NodeKind.BRANCH_NODE)) =>
            /\ entity(branch.m.Value)
            /\ \A i \in 1..16 :
                 HasKey(branch.m[ChildKey[i]], "TrieNode") =>
                   leaf(branch.m[ChildKey[i]].m["TrieNode"])
       /\ (orig.item.t = "l" /\ Len(orig.item.e) = 17
             /\ \E k \in 1..16 : deeper(orig.item.e[k])) => res.err # NoErr
C30_Witness ==
  /\ op = "trie.Decode" /\ orig.codec = EthStorageTrie /\ res.err = NoErr
  /\ orig.item = WithSlot(RefBranch({1, 6, 15}, <<>>), 9,
                           LeafItem(<<58>>, RlpEncode(LeafItem(<<58>>, <<5>>))))
  /\ res.node.m[NodeKind.BRANCH_NODE].m[ChildKey[9]].m["TrieNode"].m[NodeKind.LEAF_NODE].m.Value
       = Keyed(NodeKind.STORAGE_VALUE, Bytes(<<194, 58, 5>>))
====
